---- MODULE Spec2Model ----
(***************************************************************************)
(* Closure reconciliation pipeline of the Crime_Estimation repository.     *)
(*                                                                         *)
(* The scripts are batch programs that communicate through files on disk.  *)
(* A state of the model is the content of those files plus the module      *)
(* level tables each script leaves behind when it ends; an action is one   *)
(* complete run of one script.                                             *)
(*                                                                         *)
(* Tables (DataFrames, CSV files) are sequences of records, one record per *)
(* row, fields named after the columns.  A missing value (NaN, pd.NA,      *)
(* None) is NA for numbers and NoStr for strings.                          *)
(*                                                                         *)
(* Strings are opaque to the scripts: they are only compared for equality  *)
(* and handed to fuzzywuzzy.  A string is therefore represented by what    *)
(* the scorer makes of it: [kind, of, ratio] is a string whose WRatio with *)
(* the canonical name (kind "nm") or address (kind "add") of school `of`   *)
(* is `ratio`, and LowRatio with every other canonical string.  The        *)
(* canonical strings themselves have ratio 100.                            *)
(***************************************************************************)
EXTENDS Integers, Sequences, FiniteSets, TLC

VARIABLES
    school_shapes,        \* Data/processed/school_shapes.parquet
    raw_2013,             \* Data/raw_data/school_closures_2013.csv
    closure_reference,    \* Data/processed/school_closure_reference.csv, as last read
    closure_reviewed,     \* Data/processed/school_closure_years_reviewed.csv, as last read
    closure_years,        \* Data/processed/school_closure_years.csv
    address_review,       \* Data/processed/school_closures_2013_address_review.csv
    reference_matched,    \* Data/processed/school_closure_reference_matched.csv
    years_review,         \* Data/processed/school_closure_years_review.csv
    closure_final,        \* Data/processed/school_closure_years_final.csv
    written,              \* the pipeline files that exist on disk
    computed,             \* 04a: `computed` as read by the last run
    to_add_addr,          \* 04a: `to_add_addr` of the last run
    ref_match,            \* 04a: `ref_match` of the last run
    closure_matched,      \* 04a: `closure_matched` of the last run
    to_add,               \* final_school_closure: `to_add` of the last run
    raw_2013_matched,     \* welcoming_school_additions: `raw_2013` after the matching
    missing,              \* welcoming_school_additions: `missing` of the last run
    closure_years_columns,\* the columns of school_closure_years.csv
    finalize_exit,        \* 04a: how the last run ended
    area_transfers,       \* Data/processed/school_area_transfers.csv
    transfer_exit,        \* welcoming_school_additions: how the last run ended
    boundary_files,       \* Data/temp: the boundary CSV files matched by the globs
    crime_at_schools,     \* Data/processed/crime_at_schools.parquet
    dfs,                  \* 03: `dfs`, the normalised frames of the last run
    crime_with_school_match, \* Data/processed/crime_with_school_match.parquet
    join_exit,            \* 03: how the last run ended
    match_raw_df,         \* a caller's `raw_df`, the table handed to the matchers
    match_shapes_df,      \* a caller's `shapes_df`, the candidates
    match_results,        \* the value returned by the last call of each matcher and threshold
    dataset_rows,         \* 01: rows of the remote crime dataset
    batch_size,           \* 01: `batch_size`
    offset,               \* 01: `offset`
    chunk_index,          \* 01: `chunk_index`
    fetches,              \* 01: calls of client.get so far
    chunks,               \* 01: rows of the chunk files written, by chunk index + 1
    fetch_pc,             \* 01: "idle", "loop" (at the head of the while), "done", "raised"
                          \* (in the loop) or "NameError" (after the loop)
    requested,            \* 01: the offsets handed to client.get in this run, in order
    runs,                 \* 01: runs of the script started so far
    chunk_dir,            \* Data/processed/crime_parquet: chunk_{k:04d}.parquet at k + 1
    reading_exit,         \* crime_data_reading: how the last run ended
    assigned,             \* crime_nearest_school: `assigned`, with years_in_boundary
    review_df,            \* Data/processed/crime_boundary_containment_review.parquet
    filtered_df,          \* Data/processed/crime_boundary_containment_filtered.parquet
    nearest_exit          \* crime_nearest_school: "none" or "ok"

closure_vars == <<school_shapes, raw_2013, closure_reference, closure_reviewed,
          closure_years, address_review, reference_matched, years_review,
          closure_final, written, computed, to_add_addr, ref_match,
          closure_matched, to_add, raw_2013_matched, missing,
          closure_years_columns, finalize_exit, area_transfers, transfer_exit>>

transfer_vars == <<area_transfers, transfer_exit>>

join_vars == <<boundary_files, crime_at_schools, dfs, crime_with_school_match, join_exit>>

matcher_vars == <<match_raw_df, match_shapes_df, match_results>>

fetch_vars == <<dataset_rows, batch_size, offset, chunk_index, fetches, chunks, fetch_pc,
                requested, runs, chunk_dir, reading_exit>>

nearest_vars == <<assigned, review_df, filtered_df, nearest_exit>>

\* the state of the scripts outside the closure reconciliation
beyond_closure == <<join_vars, matcher_vars, fetch_vars, nearest_vars>>

vars == <<closure_vars, beyond_closure>>

inputs == <<school_shapes, raw_2013>>

reviewed_inputs == <<closure_reference, closure_reviewed>>

-----------------------------------------------------------------------------
(* Bounds of the model.                                                    *)

MaxRef  == 2      \* rows of the external reference list
MaxNull == 1      \* rows without SCHOOL_ID in school_closure_years.csv before a welcoming run

\* the SCHOOL_IDs of the boundary series, in the order of a boundary file
Schools == <<1, 2>>
Ids == {Schools[i] : i \in 1..Len(Schools)}

-----------------------------------------------------------------------------
(* Missing values and strings.                                             *)

NA == 0
NoStr == [kind |-> "", of |-> 0, ratio |-> 0]
LowRatio == 50    \* WRatio of two unrelated strings

CanonName(id) == [kind |-> "nm", of |-> id, ratio |-> 100]
CanonAddr(id) == [kind |-> "add", of |-> id, ratio |-> 100]

\* fuzz.WRatio of a query against a canonical string (fuzzywuzzy's default
\* scorer, used by process.extractOne)
WRatio(query, choice) ==
    IF query.kind = choice.kind /\ query.of = choice.of
    THEN query.ratio ELSE LowRatio

-----------------------------------------------------------------------------
(* pandas operations on tables.                                            *)

Range(seq) == {seq[i] : i \in 1..Len(seq)}

\* df[mask]: the rows at the positions of `keep`, in order
TakeRows(seq, keep) ==
    LET F[i \in 0..Len(seq)] ==
          IF i = 0 THEN <<>>
          ELSE IF i \in keep THEN Append(F[i-1], seq[i]) ELSE F[i-1]
    IN F[Len(seq)]

\* df.drop_duplicates(subset): the first row of every key, in order; keys
\* holds the subset columns of each row
DropDuplicates(seq, keys) ==
    TakeRows(seq, {i \in 1..Len(seq) : \A j \in 1..(i-1) : keys[j] # keys[i]})

\* the positions of `left` in every order that is ascending by key, a
\* missing key after every other (na_position="last")
RECURSIVE SortedOrders(_, _)
SortedOrders(left, keys) ==
    IF left = {} THEN { <<>> }
    ELSE LET KeyLeq(a, b) == b = NA \/ (a # NA /\ a <= b)
             least == {i \in left : \A j \in left : KeyLeq(keys[i], keys[j])}
         IN UNION { { <<i>> \o rest : rest \in SortedOrders(left \ {i}, keys) } :
                    i \in least }

\* df.sort_values(col): ascending with the missing keys last.  The sort is
\* the default kind="quicksort", which is not stable: rows with equal keys
\* come out in any order.  The value is the set of tables the call can
\* return; keys holds the column
SortValues(seq, keys) ==
    { [k \in 1..Len(seq) |-> seq[order[k]]] :
        order \in SortedOrders(1..Len(seq), keys) }

\* df.groupby(cols): the groups in ascending order of their keys; seq holds
\* one row per group and keys their keys, which are distinct
GroupOrder(seq, keys) ==
    LET Insert(order, i) ==
          LET n == Cardinality({k \in 1..Len(order) : keys[order[k]] <= keys[i]})
          IN SubSeq(order, 1, n) \o <<i>> \o SubSeq(order, n+1, Len(order))
        S[i \in 0..Len(seq)] ==
          IF i = 0 THEN <<>> ELSE Insert(S[i-1], i)
    IN [k \in 1..Len(seq) |-> seq[S[Len(seq)][k]]]

\* series.isin(values) for one value; NaN is found among float values
IsIn(x, values) == x \in Range(values)

\* the columns used as keys and candidate lists
IdColumn(rows) == [i \in 1..Len(rows) |-> rows[i].SCHOOL_ID]
NameColumn(rows) == [i \in 1..Len(rows) |-> rows[i].SCHOOL_NM]
AddressColumn(rows) == [i \in 1..Len(rows) |-> rows[i].SCHOOL_ADD]
MatchedIdColumn(rows) == [i \in 1..Len(rows) |-> rows[i].matched_SCHOOL_ID]
ClosureYearColumn(rows) == [i \in 1..Len(rows) |-> rows[i].closure_year]

\* pd.concat of tables produced one per element of a list
RECURSIVE Flatten(_)
Flatten(seqs) ==
    IF seqs = <<>> THEN <<>> ELSE Head(seqs) \o Flatten(Tail(seqs))

-----------------------------------------------------------------------------
(* fuzzywuzzy.process.extractOne: the first choice with the greatest       *)
(* score, or None (replaced by ("", 0) at every call site) without choices.*)

extractOne(query, choices) ==
    IF choices = <<>> THEN [name |-> NoStr, score |-> 0]
    ELSE LET best == CHOOSE i \in 1..Len(choices) :
                       /\ \A j \in 1..Len(choices) :
                            WRatio(query, choices[j]) <= WRatio(query, choices[i])
                       /\ \A j \in 1..(i-1) :
                            WRatio(query, choices[j]) < WRatio(query, choices[i])
         IN [name |-> choices[best], score |-> WRatio(query, choices[best])]

\* dict(zip(keys, values)).get(k): the value zipped with the last equal key
DictZipGet(keys, values, k) ==
    LET n == IF Len(keys) < Len(values) THEN Len(keys) ELSE Len(values)
        hits == {i \in 1..n : keys[i] = k}
    IN IF hits = {} THEN NA
       ELSE values[CHOOSE i \in hits : \A j \in hits : j <= i]

-----------------------------------------------------------------------------
(* A behaviour is one pass of the pipeline.  The stages are run in         *)
(* sequence and data flows strictly downstream through the files: the      *)
(* scripts that write school_closure_years.csv run, in any order and any   *)
(* number of times, before 04a_finalize_closures.py, whose run ends the    *)
(* pass.                                                                   *)

Finalized == "closure_final" \in written

\* no script of the closure pipeline has run
ClosureIdle ==
    /\ closure_reference = <<>>
    /\ closure_reviewed = <<>>
    /\ closure_years = <<>>
    /\ address_review = <<>>
    /\ reference_matched = <<>>
    /\ years_review = <<>>
    /\ closure_final = <<>>
    /\ written = {}
    /\ computed = <<>>
    /\ to_add_addr = <<>>
    /\ ref_match = <<>>
    /\ closure_matched = <<>>
    /\ to_add = <<>>
    /\ raw_2013_matched = <<>>
    /\ missing = <<>>
    /\ closure_years_columns = {}
    /\ finalize_exit = "none"
    /\ area_transfers = <<>>
    /\ transfer_exit = "none"

-----------------------------------------------------------------------------
(* school_opening_map.py                                                   *)

\* the columns of a closure table
BaseColumns == {"SCHOOL_ID", "SCHOOL_NM", "GRADE_CAT", "last_open_year", "closure_year"}

FinalYear == 2019

\* the year taken from the last two characters of the code
AcademicYearEnd(file_year) ==
    (10 * (file_year[3] % 10) + (file_year[4] % 10)) + 2000

\* file_year is a four character code, kept as its four digits;
\* file_year.str[:2].astype(int) + 2000; int() reads the digits of any script
AcademicYearStart(file_year) ==
    (10 * (file_year[1] % 10) + (file_year[2] % 10)) + 2000

\* order of the four character codes as strings: a positive number, so
\* that the code "0000" is not taken for a missing one
FileYearOrder(file_year) ==
    IF file_year = <<>> THEN NA
    ELSE 1 + 8000 * file_year[1] + 400 * file_year[2] + 20 * file_year[3] + file_year[4]

\* order of the GRADE_CAT strings
CatRank(cat) == CASE cat = "ES" -> 1 [] cat = "HS" -> 2 [] cat = "MS" -> 3 [] OTHER -> 0

\* schools_df.sort_values("file_year").drop_duplicates("SCHOOL_ID")[["SCHOOL_ID","SCHOOL_NM"]]:
\* the tables the unstable sort can leave
RepNames(shapes) ==
    { LET firsts == DropDuplicates(sorted, IdColumn(sorted))
      IN [i \in 1..Len(firsts) |-> [SCHOOL_ID |-> firsts[i].SCHOOL_ID,
                                    SCHOOL_NM |-> firsts[i].SCHOOL_NM]] :
      sorted \in SortValues(shapes, [i \in 1..Len(shapes) |->
                                       FileYearOrder(shapes[i].file_year)]) }

\* the SCHOOL_NM merged in from rep_names (how="left")
RepNameOf(rep_names, id) ==
    LET hits == SelectSeq(rep_names, LAMBDA r : r.SCHOOL_ID = id)
    IN IF hits = <<>> THEN NoStr ELSE hits[1].SCHOOL_NM

\* last_open: one row per (SCHOOL_ID, GRADE_CAT) group in key order, the
\* greatest academic_year_start of the group, closure_year one more, and
\* only the groups whose closure_year is before FinalYear
LastOpen(shapes, rep_names) ==
    LET keyed  == SelectSeq(shapes, LAMBDA r : r.SCHOOL_ID # NA /\ r.GRADE_CAT # "")
        firsts == DropDuplicates(keyed, [i \in 1..Len(keyed) |->
                                           <<keyed[i].SCHOOL_ID, keyed[i].GRADE_CAT>>])
        groups == GroupOrder(firsts, [i \in 1..Len(firsts) |->
                    4 * firsts[i].SCHOOL_ID + CatRank(firsts[i].GRADE_CAT)])
        YearsOf(g) == {AcademicYearStart(r.file_year) :
                         r \in {x \in Range(keyed) : /\ x.SCHOOL_ID = g.SCHOOL_ID
                                                     /\ x.GRADE_CAT = g.GRADE_CAT}}
        Max(S) == CHOOSE m \in S : \A x \in S : x <= m
        rows == [i \in 1..Len(groups) |->
                   [SCHOOL_ID      |-> groups[i].SCHOOL_ID,
                    SCHOOL_NM      |-> RepNameOf(rep_names, groups[i].SCHOOL_ID),
                    GRADE_CAT      |-> groups[i].GRADE_CAT,
                    last_open_year |-> Max(YearsOf(groups[i])),
                    closure_year   |-> Max(YearsOf(groups[i])) + 1]]
    IN SelectSeq(rows, LAMBDA r : r.closure_year < FinalYear)

\* step 12 builds a three column frame from the top three candidates of the
\* imperfect name matches and unpacks its first column: it raises when
\* there are fewer than three candidates or no imperfect match
ReviewRaises(shapes, raw, rep_names) ==
    LET named       == NameColumn(SelectSeq(LastOpen(shapes, rep_names),
                                            LAMBDA r : r.SCHOOL_NM # NoStr))
        ref_names   == DropDuplicates(named, named)
        unmatched   == SelectSeq(raw, LAMBDA r : extractOne(r.School, ref_names).score < 100)
        shapes_full == SelectSeq(shapes, LAMBDA r : r.SCHOOL_NM # NoStr /\ r.SCHOOL_ID # NA)
    IN unmatched = <<>> \/ Len(shapes_full) < 3

\* step 13: every raw address with its best address candidate and the
\* school of the first boundary row carrying that address
AddressReview(shapes, raw) ==
    LET with_add        == SelectSeq(shapes, LAMBDA r : r.SCHOOL_ADD # NoStr)
        addr_map        == DropDuplicates(with_add, AddressColumn(with_add))
        addr_candidates == AddressColumn(addr_map)
        Row(r) ==
          LET m    == extractOne(r.Address, addr_candidates)
              hits == SelectSeq(addr_map, LAMBDA a : a.SCHOOL_ADD = m.name)
          IN [raw_school_name    |-> r.School,
              raw_address        |-> r.Address,
              matched_address    |-> m.name,
              matched_SCHOOL_ID  |-> IF hits = <<>> THEN NA ELSE hits[1].SCHOOL_ID,
              matched_SCHOOL_NM  |-> IF hits = <<>> THEN NoStr ELSE hits[1].SCHOOL_NM,
              matched_GRADE_CAT  |-> IF hits = <<>> THEN "" ELSE hits[1].GRADE_CAT,
              addr_match_score   |-> m.score]
    IN [i \in 1..Len(raw) |-> Row(raw[i])]

\* one run: school_closure_years.csv is rewritten from the boundary series;
\* the address review is written last, if step 12 did not raise
RunSchoolOpeningMap ==
    /\ ~Finalized
    /\ UNCHANGED beyond_closure
    /\ UNCHANGED transfer_vars
    /\ \E rep_names \in RepNames(school_shapes) :
         /\ closure_years' = LastOpen(school_shapes, rep_names)
         /\ IF ReviewRaises(school_shapes, raw_2013, rep_names)
            THEN /\ address_review' = address_review
                 /\ written' = written \cup {"closure_years"}
            ELSE /\ address_review' = AddressReview(school_shapes, raw_2013)
                 /\ written' = written \cup {"closure_years", "address_review"}
    /\ closure_years_columns' = BaseColumns
    /\ UNCHANGED finalize_exit
    /\ UNCHANGED <<inputs, reviewed_inputs, reference_matched, years_review, closure_final,
                   computed, to_add_addr, ref_match, closure_matched, to_add,
                   raw_2013_matched, missing>>

-----------------------------------------------------------------------------
(* final_school_closure.py                                                 *)

\* addr_unique: the matched schools of the address review, one row each
AddrUnique(review) ==
    LET named == SelectSeq(review, LAMBDA r : r.matched_SCHOOL_ID # NA)
        uniq  == DropDuplicates(named, MatchedIdColumn(named))
    IN [i \in 1..Len(uniq) |->
          [SCHOOL_ID |-> uniq[i].matched_SCHOOL_ID,
           SCHOOL_NM |-> uniq[i].matched_SCHOOL_NM,
           GRADE_CAT |-> uniq[i].matched_GRADE_CAT]]

\* to_add, with the years assigned to the 2013 closures
ToAdd(review, closure_df) ==
    LET ids  == IdColumn(closure_df)
        news == SelectSeq(AddrUnique(review), LAMBDA r : ~IsIn(r.SCHOOL_ID, ids))
    IN [i \in 1..Len(news) |->
          [SCHOOL_ID      |-> news[i].SCHOOL_ID,
           SCHOOL_NM      |-> news[i].SCHOOL_NM,
           GRADE_CAT      |-> news[i].GRADE_CAT,
           last_open_year |-> 2012,
           closure_year   |-> 2013]]

RunFinalSchoolClosure ==
    /\ ~Finalized
    /\ UNCHANGED beyond_closure
    /\ UNCHANGED transfer_vars
    /\ {"closure_years", "address_review"} \subseteq written
    /\ to_add' = ToAdd(address_review, closure_years)
    /\ closure_years' = closure_years \o ToAdd(address_review, closure_years)
    /\ closure_years_columns' =
         IF ToAdd(address_review, closure_years) = <<>> THEN closure_years_columns
         ELSE closure_years_columns \cup BaseColumns
    /\ UNCHANGED finalize_exit
    /\ UNCHANGED <<inputs, reviewed_inputs, address_review, reference_matched, years_review,
                   closure_final, written, computed, to_add_addr, ref_match,
                   closure_matched, raw_2013_matched, missing>>

-----------------------------------------------------------------------------
(* welcoming_school_additions.py                                           *)

WelcomingThreshold == 90

\* schools_shapes: the boundary rows of file years '1213' and '1314'
ShapesOf1213And1314(shapes) ==
    SelectSeq(shapes, LAMBDA r : r.file_year \in {<<1,2,1,3>>, <<1,3,1,4>>})

\* match_school_names: SCHOOL_ID and GRADE_CAT of the first boundary row
\* that carries the best matching name, assigned when the score reaches
\* the threshold
match_school_names(raw_df, shapes_df, threshold) ==
    LET shape_names == NameColumn(shapes_df)
        Row(r) ==
          LET m    == extractOne(r.School, shape_names)
              hits == SelectSeq(shapes_df, LAMBDA x : x.SCHOOL_NM = m.name)
              ok   == m.score >= threshold
          IN [School       |-> r.School,
              SCHOOL_NM    |-> r.SCHOOL_NM,
              matched_name |-> m.name,
              match_score  |-> m.score,
              SCHOOL_ID    |-> IF ok THEN hits[1].SCHOOL_ID ELSE NA,
              GRADE_CAT    |-> IF ok THEN hits[1].GRADE_CAT ELSE ""]
    IN [i \in 1..Len(raw_df) |-> Row(raw_df[i])]

\* missing: the matched raw rows whose SCHOOL_ID is not a SCHOOL_ID of the
\* closure table.  SCHOOL_ID of the raw rows is an object column holding
\* pd.NA, the closure table's a float column holding NaN: whether isin
\* finds pd.NA among NaN depends on the pandas version (na_found).
Missing(matched, closure_df, na_found) ==
    LET ids == IdColumn(closure_df)
    IN SelectSeq(matched, LAMBDA r :
          IF r.SCHOOL_ID = NA THEN ~(na_found /\ IsIn(NA, ids))
          ELSE ~IsIn(r.SCHOOL_ID, ids))

NewRows(miss) ==
    [i \in 1..Len(miss) |->
       [SCHOOL_ID      |-> miss[i].SCHOOL_ID,
        SCHOOL_NM      |-> miss[i].SCHOOL_NM,
        GRADE_CAT      |-> miss[i].GRADE_CAT,
        last_open_year |-> 2013,
        closure_year   |-> 2014]]

\* range(2008, 2019)
TransferFirstYear == 2008
TransferLastYear  == 2018

RECURSIVE SumAreas(_)
SumAreas(areas) ==
    IF areas = <<>> THEN 0 ELSE Head(areas) + SumAreas(Tail(areas))

\* calculate_area_transfer: the boundaries of the closed schools in the
\* first frame are intersected with the boundaries of the other schools in
\* the second; the area of every (closed, receiving) pair that overlaps is
\* summed.  A geometry is a set of cells and its area their number.
calculate_area_transfer(prev_year_gdf, next_year_gdf, closed_school_ids) ==
    LET closed_schools == SelectSeq(prev_year_gdf, LAMBDA r : IsIn(r.SCHOOL_ID, closed_school_ids))
        open_schools   == SelectSeq(next_year_gdf, LAMBDA r : ~IsIn(r.SCHOOL_ID, closed_school_ids))
        intersection ==
          Flatten([i \in 1..Len(closed_schools) |->
            Flatten([j \in 1..Len(open_schools) |->
              IF closed_schools[i].geometry \cap open_schools[j].geometry = {} THEN <<>>
              ELSE << [SCHOOL_ID_1 |-> closed_schools[i].SCHOOL_ID,
                       SCHOOL_NM_1 |-> closed_schools[i].SCHOOL_NM,
                       SCHOOL_ID_2 |-> open_schools[j].SCHOOL_ID,
                       SCHOOL_NM_2 |-> open_schools[j].SCHOOL_NM,
                       transferred_area_sqm |->
                         Cardinality(closed_schools[i].geometry \cap open_schools[j].geometry)] >>])])
        keyed  == SelectSeq(intersection, LAMBDA r :
                    /\ r.SCHOOL_ID_1 # NA /\ r.SCHOOL_NM_1 # NoStr
                    /\ r.SCHOOL_ID_2 # NA /\ r.SCHOOL_NM_2 # NoStr)
        KeyOf(r) == <<r.SCHOOL_ID_1, r.SCHOOL_NM_1, r.SCHOOL_ID_2, r.SCHOOL_NM_2>>
        firsts == DropDuplicates(keyed, [i \in 1..Len(keyed) |-> KeyOf(keyed[i])])
        groups == GroupOrder(firsts, [i \in 1..Len(firsts) |->
                    1000 * firsts[i].SCHOOL_ID_1 + firsts[i].SCHOOL_ID_2])
        AreasOf(g) == LET same == SelectSeq(keyed, LAMBDA r : KeyOf(r) = KeyOf(g))
                      IN [i \in 1..Len(same) |-> same[i].transferred_area_sqm]
    IN IF closed_schools = <<>> \/ open_schools = <<>> THEN <<>>
       ELSE [i \in 1..Len(groups) |->
               [Closed_SCHOOL_ID     |-> groups[i].SCHOOL_ID_1,
                Closed_SCHOOL_NM     |-> groups[i].SCHOOL_NM_1,
                Receiving_SCHOOL_ID  |-> groups[i].SCHOOL_ID_2,
                Receiving_SCHOOL_NM  |-> groups[i].SCHOOL_NM_2,
                transferred_area_sqm |-> SumAreas(AreasOf(groups[i]))]]

\* all_transfers: for every year of the range the transfer from the
\* schools whose closure_year is that year, between the boundaries of the
\* academic year starting in that year and those of the year after
AllTransfers(shapes, closure_df) ==
    Flatten([k \in 1..(TransferLastYear - TransferFirstYear + 1) |->
      LET year == TransferFirstYear + k - 1
          prev_year_gdf == SelectSeq(shapes, LAMBDA r : AcademicYearStart(r.file_year) = year)
          next_year_gdf == SelectSeq(shapes, LAMBDA r : AcademicYearStart(r.file_year) = year + 1)
          closed_school_ids == IdColumn(SelectSeq(closure_df, LAMBDA c : c.closure_year = year))
          transfer_df == calculate_area_transfer(prev_year_gdf, next_year_gdf, closed_school_ids)
      IN [i \in 1..Len(transfer_df) |->
            [Closed_SCHOOL_ID     |-> transfer_df[i].Closed_SCHOOL_ID,
             Closed_SCHOOL_NM     |-> transfer_df[i].Closed_SCHOOL_NM,
             Receiving_SCHOOL_ID  |-> transfer_df[i].Receiving_SCHOOL_ID,
             Receiving_SCHOOL_NM  |-> transfer_df[i].Receiving_SCHOOL_NM,
             transferred_area_sqm |-> transfer_df[i].transferred_area_sqm,
             closure_year         |-> year]]])

\* one run: the closure table is appended to and saved; then the area
\* transfers are computed from the boundaries and the closure table as it
\* was read at the start, and pd.concat raises on an empty all_transfers
RunWelcomingSchoolAdditions ==
    /\ ~Finalized
    /\ UNCHANGED beyond_closure
    /\ LET all_transfers == AllTransfers(school_shapes, closure_years)
       IN IF all_transfers = <<>>
          THEN /\ transfer_exit' = "ValueError"
               /\ area_transfers' = area_transfers
          ELSE /\ transfer_exit' = "ok"
               /\ area_transfers' = all_transfers
    /\ "closure_years" \in written
    /\ Cardinality({i \in 1..Len(closure_years) : closure_years[i].SCHOOL_ID = NA}) <= MaxNull
    /\ \E na_found \in BOOLEAN :
         LET matched == match_school_names(raw_2013,
                                           ShapesOf1213And1314(school_shapes),
                                           WelcomingThreshold)
             miss    == Missing(matched, closure_years, na_found)
         IN /\ raw_2013_matched' = matched
            /\ missing' = miss
            /\ closure_years' = closure_years \o NewRows(miss)
    /\ closure_years_columns' = closure_years_columns \cup BaseColumns
    /\ UNCHANGED finalize_exit
    /\ UNCHANGED <<inputs, reviewed_inputs, address_review, reference_matched, years_review,
                   closure_final, written, computed, to_add_addr, ref_match,
                   closure_matched, to_add>>

-----------------------------------------------------------------------------
(* 04a_finalize_closures.py                                                *)

NameThreshold == 80
AddrThreshold == 90

\* fuzzy_match_ids with the comparison of line 15 turned round
fuzzy_match_ids_inverted(raw_names, ref_names, ref_ids, threshold) ==
    LET Row(nm) ==
          LET m   == extractOne(nm, ref_names)
              low == m.score > threshold
          IN [matched_name |-> IF low THEN NoStr ELSE m.name,
              score        |-> m.score,
              matched_id   |-> IF low THEN NA
                               ELSE DictZipGet(ref_names, ref_ids, m.name)]
    IN [i \in 1..Len(raw_names) |-> Row(raw_names[i])]

\* fuzzy_match_ids rejecting a score equal to the threshold
fuzzy_match_ids_strict(raw_names, ref_names, ref_ids, threshold) ==
    LET Row(nm) ==
          LET m   == extractOne(nm, ref_names)
              low == m.score <= threshold
          IN [matched_name |-> IF low THEN NoStr ELSE m.name,
              score        |-> m.score,
              matched_id   |-> IF low THEN NA
                               ELSE DictZipGet(ref_names, ref_ids, m.name)]
    IN [i \in 1..Len(raw_names) |-> Row(raw_names[i])]

\* fuzzy_match_ids: per raw name the best candidate, the id zipped with
\* its name and the score; name and id are nulled under the threshold
fuzzy_match_ids(raw_names, ref_names, ref_ids, threshold) ==
    LET Row(nm) ==
          LET m   == extractOne(nm, ref_names)
              low == m.score < threshold
          IN [matched_name |-> IF low THEN NoStr ELSE m.name,
              score        |-> m.score,
              matched_id   |-> IF low THEN NA
                               ELSE DictZipGet(ref_names, ref_ids, m.name)]
    IN [i \in 1..Len(raw_names) |-> Row(raw_names[i])]

\* addr: the confident rows of the address review, one per matched school,
\* as closures of 2013
Addr(review) ==
    LET high == SelectSeq(review, LAMBDA r : r.addr_match_score >= AddrThreshold)
        uniq == DropDuplicates(high, MatchedIdColumn(high))
    IN [i \in 1..Len(uniq) |->
          [SCHOOL_ID        |-> uniq[i].matched_SCHOOL_ID,
           SCHOOL_NM        |-> uniq[i].matched_SCHOOL_NM,
           GRADE_CAT        |-> uniq[i].matched_GRADE_CAT,
           addr_match_score |-> uniq[i].addr_match_score,
           last_open_year   |-> 2012,
           closure_year     |-> 2013]]

ToAddAddr(review, comp) ==
    LET ids == IdColumn(comp)
    IN SelectSeq(Addr(review), LAMBDA r : ~IsIn(r.SCHOOL_ID, ids))

\* ref_match: the reference names matched against one boundary row per
\* SCHOOL_ID
RefMatch(reference, shapes) ==
    LET uniq == DropDuplicates(shapes, IdColumn(shapes))
    IN fuzzy_match_ids(NameColumn(reference), NameColumn(uniq), IdColumn(uniq),
                       NameThreshold)

\* ref as saved to school_closure_reference_matched.csv and read back: the
\* reference rows beside their match m (ref_match), without the rows that
\* have no matched_id; the renamed matched_name comes back as SCHOOL_NM.1.
\* A blank year_closed is NaN and so is the last_open_year taken from it
Ref(reference, m) ==
    LET joined == [i \in 1..Len(reference) |->
                     [SCHOOL_NM      |-> reference[i].SCHOOL_NM,
                      GRADE_CAT      |-> reference[i].GRADE_CAT,
                      closure_year   |-> reference[i].year_closed,
                      SCHOOL_NM_1    |-> m[i].matched_name,
                      score          |-> m[i].score,
                      SCHOOL_ID      |-> m[i].matched_id,
                      last_open_year |-> IF reference[i].year_closed = NA THEN NA
                                         ELSE reference[i].year_closed - 1]]
    IN SelectSeq(joined, LAMBDA r : r.SCHOOL_ID # NA)

\* closure_review: computed left-merged with the reference closure years
ClosureReview(comp, ref) ==
    LET With(c, y) ==
            [SCHOOL_ID        |-> c.SCHOOL_ID,
             SCHOOL_NM        |-> c.SCHOOL_NM,
             GRADE_CAT        |-> c.GRADE_CAT,
             last_open_year   |-> c.last_open_year,
             closure_year     |-> c.closure_year,
             closure_year_ref |-> y]
        Rows(c) ==
          LET hits == SelectSeq(ref, LAMBDA r : r.SCHOOL_ID = c.SCHOOL_ID)
          IN IF hits = <<>> THEN <<With(c, NA)>>
             ELSE [k \in 1..Len(hits) |-> With(c, hits[k].closure_year)]
    IN Flatten([i \in 1..Len(comp) |-> Rows(comp[i])])

\* closure_diff without the notna() filter
ClosureDiffKeepMissing(review) ==
    SelectSeq(review, LAMBDA r : r.closure_year # r.closure_year_ref)

\* closure_diff: the merged rows whose reference year exists and differs
ClosureDiff(review) ==
    SelectSeq(review, LAMBDA r : /\ r.closure_year # r.closure_year_ref
                                 /\ r.closure_year_ref # NA)

\* closure_matched, with the reviewed rows appended
ClosureMatched(review, reviewed) ==
    SelectSeq(review, LAMBDA r : \/ r.closure_year = r.closure_year_ref
                                 \/ r.closure_year_ref = NA)
    \o reviewed

\* the columns of BASE_COLS
BaseCols(rows) ==
    [i \in 1..Len(rows) |->
       [SCHOOL_ID      |-> rows[i].SCHOOL_ID,
        SCHOOL_NM      |-> rows[i].SCHOOL_NM,
        GRADE_CAT      |-> rows[i].GRADE_CAT,
        last_open_year |-> rows[i].last_open_year,
        closure_year   |-> rows[i].closure_year]]

\* to_add_ref without the test against the computed SCHOOL_IDs
ToAddRefAll(ref, comp) == ref

ToAddRef(ref, comp) ==
    LET ids == IdColumn(comp)
    IN SelectSeq(ref, LAMBDA r : ~IsIn(r.SCHOOL_ID, ids))

\* the concatenation that is de-duplicated
Concatenated(comp, ref) == BaseCols(comp) \o BaseCols(ToAddRef(ref, comp))

\* all_close without drop_duplicates
AllCloseKeepAll(comp, ref) ==
    SortValues(Concatenated(comp, ref), ClosureYearColumn(Concatenated(comp, ref)))

\* all_close without sort_values
AllCloseUnsorted(comp, ref) ==
    { DropDuplicates(Concatenated(comp, ref), IdColumn(Concatenated(comp, ref))) }

\* all_close: sorted by closure_year, the first row of every SCHOOL_ID; the
\* tables the unstable sort can leave
AllClose(comp, ref) ==
    LET all == Concatenated(comp, ref)
    IN { DropDuplicates(sorted, IdColumn(sorted)) :
           sorted \in SortValues(all, ClosureYearColumn(all)) }

\* the reference list: names at the name threshold for every school, for
\* school 1 a second closure year and a name just below the threshold, and
\* for school 2 a row whose year_closed is blank
RefRow(id, s, y) ==
    [SCHOOL_NM   |-> [kind |-> "nm", of |-> id, ratio |-> s],
     GRADE_CAT   |-> "ES",
     year_closed |-> y]

RefRows ==
    { RefRow(id, 80, 2014) : id \in Ids }
    \cup { RefRow(1, 80, 2013), RefRow(1, 79, 2013), RefRow(2, 80, NA) }

RefTables == UNION { [1..n -> RefRows] : n \in 0..MaxRef }

\* the reviewed discrepancies: none, or a corrected closure year
ReviewedTables ==
    { <<>> } \cup
    { << [SCHOOL_ID |-> id, SCHOOL_NM |-> CanonName(id), GRADE_CAT |-> "ES",
          last_open_year |-> 2014, closure_year |-> 2015,
          closure_year_ref |-> 2015] >> : id \in {1} }

\* the columns asserted at line 24
AssertedColumns == {"SCHOOL_ID", "SCHOOL_NM", "GRADE_CAT", "closure_year", "last_open_year"}

\* the run ends before anything is written.  A file without any column
\* makes read_csv raise EmptyDataError at line 21 and `computed` is never
\* bound; otherwise the file is read and the assertion of line 24 fails
FinalizeHalts ==
    /\ IF closure_years_columns = {}
       THEN /\ computed' = computed
            /\ finalize_exit' = "EmptyDataError"
       ELSE /\ computed' = closure_years
            /\ finalize_exit' = "AssertionError"
    /\ UNCHANGED <<reviewed_inputs, ref_match, reference_matched, years_review,
                   closure_matched, closure_final, to_add_addr, written>>

\* the run after the assertion.  school_closure_years_final.csv is written
\* twice, first with closure_matched and at the end with all_close; the
\* file left on disk is the second.
FinalizeWrites ==
    /\ computed' = closure_years
    /\ to_add_addr' = ToAddAddr(address_review, closure_years)
    /\ written' = written \cup {"reference_matched", "years_review", "closure_final"}
    /\ finalize_exit' = "ok"
    /\ \E reference \in RefTables :
         LET m      == RefMatch(reference, school_shapes)
             ref    == Ref(reference, m)
             review == ClosureReview(closure_years, ref)
         IN /\ closure_reference' = reference
            /\ ref_match' = m
            /\ reference_matched' = ref
            /\ years_review' = ClosureDiff(review)
            /\ closure_final' \in AllClose(closure_years, ref)
            /\ \E reviewed \in ReviewedTables :
                 /\ closure_reviewed' = reviewed
                 /\ closure_matched' = ClosureMatched(review, reviewed)

\* the script with the assertion placed after the reference list is
\* matched and saved
FinalizeClosuresAssertLate ==
    /\ {"closure_years", "address_review"} \subseteq written
    /\ UNCHANGED beyond_closure
    /\ UNCHANGED transfer_vars
    /\ UNCHANGED <<inputs, closure_years, closure_years_columns, address_review,
                   to_add, raw_2013_matched, missing>>
    /\ IF AssertedColumns \subseteq closure_years_columns
       THEN FinalizeWrites
       ELSE IF closure_years_columns = {}
       THEN FinalizeHalts
       ELSE /\ \E reference \in RefTables :
                 /\ closure_reference' = reference
                 /\ ref_match' = RefMatch(reference, school_shapes)
                 /\ reference_matched' = Ref(reference, ref_match')
            /\ written' = written \cup {"reference_matched"}
            /\ computed' = closure_years
            /\ finalize_exit' = "AssertionError"
            /\ UNCHANGED <<closure_reviewed, years_review, closure_matched,
                           closure_final, to_add_addr>>

\* one run of the script
FinalizeClosures ==
    /\ {"closure_years", "address_review"} \subseteq written
    /\ UNCHANGED beyond_closure
    /\ UNCHANGED transfer_vars
    /\ UNCHANGED <<inputs, closure_years, closure_years_columns, address_review,
                   to_add, raw_2013_matched, missing>>
    /\ IF AssertedColumns \subseteq closure_years_columns
       THEN FinalizeWrites
       ELSE FinalizeHalts

\* the run that ends a pass of the pipeline
RunFinalizeClosures ==
    /\ ~Finalized
    /\ FinalizeClosures

\* the first run of a pass over the outputs of an earlier pass
RerunFinalizeClosures ==
    /\ Finalized
    /\ finalize_exit = "none"
    /\ FinalizeClosures

-----------------------------------------------------------------------------
(* 03_yearly_school_data_join.py (yearly_school_data_join.py is the same   *)
(* script).  A boundary CSV is [name, columns, rows, parses]: the header   *)
(* as a sequence of column names, the rows as sequences of values parallel *)
(* to the header.  A polygon is the set of grid cells it covers, a point a *)
(* cell; a point is within a polygon when its cell is one of the cells.    *)

MaxCell == 3      \* grid cells 1..MaxCell

NoCode == <<>>    \* no year code
NoGeom == {}      \* no geometry

\* the rename table of lines 70-79 with SchoolID sent to another key
rename_map_chained(name) ==
    CASE name = "BoundaryGr" -> "BOUNDARYGR"
      [] name = "School_NM"  -> "SCHOOL_NM"
      [] name = "SchoolID"   -> "SCHOOLID"
      [] name = "Grade_Cat"  -> "GRADE_CAT"
      [] name = "SchoolAddr" -> "SCHOOL_ADD"
      [] name = "SchoolName" -> "SCHOOL_NM"
      [] name = "SCHOOLID"   -> "SCHOOL_ID"
      [] name = "SCHOOL_Nam" -> "SCHOOL_NM"
      [] OTHER               -> name

\* rename_map, as df.rename(columns=rename_map) uses it: a column that is
\* not a key keeps its name
rename_map(name) ==
    CASE name = "BoundaryGr" -> "BOUNDARYGR"
      [] name = "School_NM"  -> "SCHOOL_NM"
      [] name = "SchoolID"   -> "SCHOOL_ID"
      [] name = "Grade_Cat"  -> "GRADE_CAT"
      [] name = "SchoolAddr" -> "SCHOOL_ADD"
      [] name = "SchoolName" -> "SCHOOL_NM"
      [] name = "SCHOOLID"   -> "SCHOOL_ID"
      [] name = "SCHOOL_Nam" -> "SCHOOL_NM"
      [] OTHER               -> name

RenameColumns(columns) == [i \in 1..Len(columns) |-> rename_map(columns[i])]

\* A base name is the sequence of its characters.
DigitChars == <<"0", "1", "2", "3", "4", "5", "6", "7", "8", "9">>

\* the decimal digits of another script (ARABIC-INDIC DIGIT ZERO..NINE),
\* each one character
OtherDigitChars == <<"U+0660", "U+0661", "U+0662", "U+0663", "U+0664",
                     "U+0665", "U+0666", "U+0667", "U+0668", "U+0669">>

\* \d in a str pattern without re.ASCII: a decimal digit of any script
IsDigit(c) == c \in Range(DigitChars) \cup Range(OtherDigitChars)

\* a digit character as it is kept in a year code: an ASCII digit as its
\* value, a digit of the other script, a different character that sorts
\* after the ASCII digits, as 10 + its value
DigitValue(c) ==
    IF c \in Range(DigitChars)
    THEN (CHOOSE k \in 1..Len(DigitChars) : DigitChars[k] = c) - 1
    ELSE (CHOOSE k \in 1..Len(OtherDigitChars) : OtherDigitChars[k] = c) + 9

\* \d{4} matches at position i
FourDigitsAt(s, i) ==
    /\ i + 3 <= Len(s)
    /\ \A k \in i..(i + 3) : IsDigit(s[k])

\* re.search(r"SY(\d{4})", basename): group 1 of the leftmost match at or
\* after position i, NoCode without a match
RECURSIVE SearchSYDigits(_, _)
SearchSYDigits(s, i) ==
    IF i + 5 > Len(s) THEN NoCode
    ELSE IF s[i] = "S" /\ s[i + 1] = "Y" /\ FourDigitsAt(s, i + 2)
         THEN SubSeq(s, i + 2, i + 5)
         ELSE SearchSYDigits(s, i + 1)

\* re.search(r"(\d{4})", basename): group 1 of the leftmost match at or
\* after position i, NoCode without a match
RECURSIVE SearchDigits(_, _)
SearchDigits(s, i) ==
    IF i + 3 > Len(s) THEN NoCode
    ELSE IF FourDigitsAt(s, i) THEN SubSeq(s, i, i + 3)
         ELSE SearchDigits(s, i + 1)

\* the year code with the two searches tried in the other order
FileYearDigitsFirst(name) ==
    LET m    == SearchSYDigits(name.base, 1)
        m2   == SearchDigits(name.base, 1)
        code == IF m2 # NoCode THEN m2 ELSE IF m # NoCode THEN m ELSE NoCode
    IN [k \in 1..Len(code) |-> DigitValue(code[k])]

\* the year code of a file name: the four digits after "SY", else the
\* first run of four digits, else None; the code is kept as its digits
FileYear(name) ==
    LET m    == SearchSYDigits(name.base, 1)
        m2   == SearchDigits(name.base, 1)
        code == IF m # NoCode THEN m ELSE IF m2 # NoCode THEN m2 ELSE NoCode
    IN [k \in 1..Len(code) |-> DigitValue(code[k])]

\* matching_files after the network/charter filter of line 38
MatchingFiles(files) == {f \in files : ~f.name.network_or_charter}

\* the orders list(set(matching_files)) can have
Orderings(S) == {o \in [1..Cardinality(S) -> S] : Range(o) = S}

\* one pass of the loop body of lines 68-92 that does not raise
NormalizeFile(f) ==
    [columns |-> RenameColumns(f.columns) \o <<"file_year">>,
     rows    |-> [i \in 1..Len(f.rows) |-> f.rows[i] \o <<FileYear(f.name)>>]]

\* dfs: the frames of the files that parse, in the order of matching_files
Frames(order) ==
    LET parsed == SelectSeq(order, LAMBDA f : f.parses)
    IN [i \in 1..Len(parsed) |-> NormalizeFile(parsed[i])]

ShapesColumns ==
    <<"SCHOOL_ID", "SCHOOL_NM", "the_geom", "SCHOOL_ADD", "GRADE_CAT", "BOUNDARYGR", "file_year">>

\* the value pd.concat leaves where a frame has no such column
MissingValue(c) ==
    CASE c = "SCHOOL_ID" -> NA
      [] c \in {"SCHOOL_NM", "SCHOOL_ADD"} -> NoStr
      [] c = "the_geom" -> NoGeom
      [] c = "file_year" -> NoCode
      [] OTHER -> ""

\* the value of column c in a row of frame d
ValueOf(d, row, c) ==
    LET at == {k \in 1..Len(d.columns) : d.columns[k] = c}
    IN IF at = {} THEN MissingValue(c)
       ELSE row[CHOOSE k \in at : \A j \in at : k <= j]

\* pd.concat(dfs)[ShapesColumns] with the_geom parsed into geometry
ConcatShapes(frames) ==
    Flatten([i \in 1..Len(frames) |->
      [k \in 1..Len(frames[i].rows) |->
         [SCHOOL_ID  |-> ValueOf(frames[i], frames[i].rows[k], "SCHOOL_ID"),
          SCHOOL_NM  |-> ValueOf(frames[i], frames[i].rows[k], "SCHOOL_NM"),
          SCHOOL_ADD |-> ValueOf(frames[i], frames[i].rows[k], "SCHOOL_ADD"),
          GRADE_CAT  |-> ValueOf(frames[i], frames[i].rows[k], "GRADE_CAT"),
          BOUNDARYGR |-> ValueOf(frames[i], frames[i].rows[k], "BOUNDARYGR"),
          file_year  |-> ValueOf(frames[i], frames[i].rows[k], "file_year"),
          geometry   |-> ValueOf(frames[i], frames[i].rows[k], "the_geom")]]])

\* the columns of the concatenation
ConcatColumns(frames) ==
    UNION {Range(frames[i].columns) : i \in 1..Len(frames)}

\* gpd.sjoin(crime, schools, how="left", predicate="within"): a row per
\* crime and polygon containing it, or one row without school
joined_many(crimes, shapes) ==
    Flatten([i \in 1..Len(crimes) |->
      LET hits == SelectSeq(shapes, LAMBDA r : crimes[i].point \in r.geometry)
      IN IF hits = <<>>
         THEN << [id |-> crimes[i].id, date |-> crimes[i].date,
                  primary_type |-> crimes[i].primary_type,
                  SCHOOL_ID |-> NA, GRADE_CAT |-> ""] >>
         ELSE [k \in 1..Len(hits) |->
                 [id |-> crimes[i].id, date |-> crimes[i].date,
                  primary_type |-> crimes[i].primary_type,
                  SCHOOL_ID |-> hits[k].SCHOOL_ID, GRADE_CAT |-> hits[k].GRADE_CAT]]])

\* df.loc[df.GRADE_CAT == cat, "SCHOOL_ID"].dropna().unique().tolist()
SchoolsOfGrade(rows, cat) ==
    LET ids == IdColumn(SelectSeq(rows, LAMBDA r : r.GRADE_CAT = cat /\ r.SCHOOL_ID # NA))
    IN DropDuplicates(ids, ids)

collect_by_grade(rows) ==
    [ES_schools |-> SchoolsOfGrade(rows, "ES"),
     MS_schools |-> SchoolsOfGrade(rows, "MS"),
     HS_schools |-> SchoolsOfGrade(rows, "HS")]

\* order of the primary_type strings
TypeRank(primary_type) ==
    CASE primary_type = "ASSAULT" -> 1 [] primary_type = "THEFT" -> 2 [] OTHER -> 0

\* crime_with_grades: a row per (id, date, primary_type) group, in the
\* order of the three keys; groupby leaves out the rows with a missing key
crime_with_grades(joined) ==
    LET keyed  == SelectSeq(joined, LAMBDA r : /\ r.id # NA
                                               /\ r.date # NA
                                               /\ r.primary_type # "")
        firsts == DropDuplicates(keyed, [i \in 1..Len(keyed) |->
                                           <<keyed[i].id, keyed[i].date, keyed[i].primary_type>>])
        groups == GroupOrder(firsts, [i \in 1..Len(firsts) |->
                    10 * (10000 * firsts[i].id + firsts[i].date)
                    + TypeRank(firsts[i].primary_type)])
    IN [g \in 1..Len(groups) |->
          LET members == SelectSeq(keyed, LAMBDA r : /\ r.id = groups[g].id
                                                     /\ r.date = groups[g].date
                                                     /\ r.primary_type = groups[g].primary_type)
              lists   == collect_by_grade(members)
          IN [id |-> groups[g].id, date |-> groups[g].date,
              primary_type |-> groups[g].primary_type,
              ES_schools |-> lists.ES_schools,
              MS_schools |-> lists.MS_schools,
              HS_schools |-> lists.HS_schools]]

\* one run.  A file that does not parse is skipped inside the loop; the
\* concatenation, the column selection and wkt.loads are outside any try.
RunYearlySchoolDataJoin ==
    /\ \E order \in Orderings(MatchingFiles(boundary_files)) :
         LET frames == Frames(order)
             shapes == ConcatShapes(frames)
         IN /\ dfs' = frames
            /\ IF frames = <<>>
               THEN /\ join_exit' = "ValueError"
                    /\ UNCHANGED <<school_shapes, crime_with_school_match>>
               ELSE IF ~(Range(ShapesColumns) \subseteq ConcatColumns(frames))
               THEN /\ join_exit' = "KeyError"
                    /\ UNCHANGED <<school_shapes, crime_with_school_match>>
               ELSE IF \E k \in 1..Len(shapes) : shapes[k].geometry = NoGeom
               THEN /\ join_exit' = "TypeError"
                    /\ UNCHANGED <<school_shapes, crime_with_school_match>>
               ELSE /\ join_exit' = "ok"
                    /\ school_shapes' = shapes
                    /\ crime_with_school_match' =
                         crime_with_grades(joined_many(crime_at_schools, shapes))
    /\ UNCHANGED <<raw_2013, closure_reference, closure_reviewed, closure_years,
                   address_review, reference_matched, years_review, closure_final,
                   written, computed, to_add_addr, ref_match, closure_matched,
                   to_add, raw_2013_matched, missing, closure_years_columns,
                   finalize_exit, area_transfers, transfer_exit>>
    /\ UNCHANGED <<boundary_files, crime_at_schools>>
    /\ UNCHANGED <<matcher_vars, fetch_vars, nearest_vars>>

\* the script has not run and its inputs are not looked at
JoinIdle ==
    /\ boundary_files = {}
    /\ crime_at_schools = <<>>
    /\ dfs = <<>>
    /\ crime_with_school_match = <<>>
    /\ join_exit = "none"

\* a boundary row as the values of the columns
\* (id, name, geometry, address, grade, boundary group)
BoundaryRow(id, cat, cells) == <<id, CanonName(id), cells, CanonAddr(id), cat, "G">>

\* the files Data/temp can hold: elementary 2012-13 and 2013-14, where
\* school 1 takes over the area of school 2, a high school file of 2013-14
\* named without "SY", written by another convention and without the
\* boundary group, and a charter file
BoundaryFileMenu ==
    { [name    |-> [base |-> <<"S", "Y", "1", "2", "1", "3">>, network_or_charter |-> FALSE],
       columns |-> <<"SCHOOL_ID", "SCHOOL_Nam", "the_geom", "SCHOOL_ADD", "GRADE_CAT", "BOUNDARYGR">>,
       rows    |-> <<BoundaryRow(1, "ES", {1}), BoundaryRow(2, "ES", {2})>>],
      [name    |-> [base |-> <<"S", "Y", "1", "3", "1", "4">>, network_or_charter |-> FALSE],
       columns |-> <<"SchoolID", "School_NM", "the_geom", "SchoolAddr", "Grade_Cat", "BoundaryGr">>,
       rows    |-> <<BoundaryRow(1, "ES", {1, 2})>>],
      [name    |-> [base |-> <<"H", "S", "1", "3", "1", "4">>, network_or_charter |-> FALSE],
       columns |-> <<"SCHOOLID", "SchoolName", "the_geom", "SCHOOL_ADD", "GRADE_CAT">>,
       rows    |-> <<<<3, CanonName(3), {3}, CanonAddr(3), "HS">>>>],
      [name    |-> [base |-> <<"S", "Y", "1", "3", "1", "4", "c">>, network_or_charter |-> TRUE],
       columns |-> <<"SCHOOL_ID", "SCHOOL_NM", "the_geom", "SCHOOL_ADD", "GRADE_CAT", "BOUNDARYGR">>,
       rows    |-> <<BoundaryRow(4, "ES", {1, 2, 3})>>] }

\* Data/temp: any of the files, each readable or not
BoundaryDirectories ==
    UNION { { {[name |-> f.name, columns |-> f.columns, rows |-> f.rows,
                parses |-> f \notin bad] : f \in present} : bad \in SUBSET present } :
            present \in SUBSET BoundaryFileMenu }

\* a theft at a school, with or without a date, alone or before an assault
\* of the same id and date or an assault without id
CrimeTables ==
    { << [id |-> 7, date |-> d, primary_type |-> "THEFT", point |-> c] >> \o more :
        d \in {2013, 2014, NA}, c \in 1..MaxCell,
        more \in { <<>> } \cup
                 { << [id |-> i, date |-> 2013, primary_type |-> "ASSAULT", point |-> 1] >> :
                   i \in {7, NA} } }

-----------------------------------------------------------------------------
(* The matchers, called on their own: fuzzy_match_ids of                   *)
(* 04a_finalize_closures.py and match_school_names of                      *)
(* welcoming_school_additions.py.  A caller holds a table raw_df and the   *)
(* candidates shapes_df and calls a matcher with a threshold.              *)

MaxRaw == 2       \* rows of raw_df

MatcherThresholds == {80, 90}

MatcherCalls == {"fuzzy_match_ids", "match_school_names"} \X MatcherThresholds

\* fuzzy_match_ids(raw_df["School"], names, ids, t): a new frame is
\* returned, the arguments are only read
CallFuzzyMatchIds ==
    /\ \E t \in MatcherThresholds :
         match_results' =
           [match_results EXCEPT ![<<"fuzzy_match_ids", t>>] =
              << fuzzy_match_ids([i \in 1..Len(match_raw_df) |-> match_raw_df[i].School],
                                 NameColumn(match_shapes_df),
                                 IdColumn(match_shapes_df), t) >>]
    /\ UNCHANGED <<match_raw_df, match_shapes_df>>
    /\ UNCHANGED <<closure_vars, join_vars, fetch_vars, nearest_vars>>

\* match_school_names(raw_df, shapes_df, t): the columns are assigned into
\* raw_df itself (lines 43-57), which is also the value returned
CallMatchSchoolNames ==
    /\ \E t \in MatcherThresholds :
         LET out == match_school_names(match_raw_df, match_shapes_df, t)
         IN /\ match_raw_df' = out
            /\ match_results' =
                 [match_results EXCEPT ![<<"match_school_names", t>>] = <<out>>]
    /\ UNCHANGED match_shapes_df
    /\ UNCHANGED <<closure_vars, join_vars, fetch_vars, nearest_vars>>

\* no matcher is called on its own
MatcherIdle ==
    /\ match_raw_df = <<>>
    /\ match_shapes_df = <<>>
    /\ match_results = <<>>

-----------------------------------------------------------------------------
(* 01_crime_data_cleaning.py (crime_data_cleaning.py has the same loop):   *)
(* the paginated fetch.  The dataset does not change during a run; a page  *)
(* is the rows from offset on, at most batch_size of them.                 *)

MaxRows  == 9     \* rows of the remote dataset
MaxBatch == 3     \* page sizes 1..MaxBatch

\* rows returned by client.get(resource_id, limit=batch_size, offset=offset)
PageRows ==
    LET left == IF dataset_rows > offset THEN dataset_rows - offset ELSE 0
    IN IF left < batch_size THEN left ELSE batch_size

\* the positions in the dataset of the rows of that page
PagePositions ==
    { p \in 0..(dataset_rows - 1) : p >= offset /\ p < offset + batch_size }

\* an advance that skips the row after the page
NextOffsetSkipping == offset + batch_size + 1

\* offset += batch_size
NextOffset == offset + batch_size

\* df_chunk.to_parquet(out_path): the file of that index is created or
\* replaced, every other file of the directory is left as it is
WriteChunk(dir, index, content) ==
    LET n == IF Len(dir) > index + 1 THEN Len(dir) ELSE index + 1
    IN [k \in 1..n |-> IF k = index + 1 THEN content ELSE dir[k]]

\* the final test with a full page taken for the last one
ShortPageOrFull(n, limit) == n <= limit

\* len(df_chunk) < batch_size
ShortPage(n, limit) == n < limit

\* one iteration of the while loop: fetch, leave on an empty page, else
\* write the chunk, advance and leave after a short page.  The iteration
\* that leaves the loop goes on to the lines after it: print(df_chunk.dtypes)
\* at line 118 raises NameError when no page of the run was non-empty,
\* df_chunk being bound in the loop only (line 62), which is when the first
\* page is empty
FetchPage ==
    /\ fetch_pc = "loop"
    /\ fetches' = fetches + 1
    /\ requested' = Append(requested, offset)
    /\ IF PageRows = 0
       THEN /\ fetch_pc' = IF chunk_index = 0 THEN "NameError" ELSE "done"
            /\ UNCHANGED <<offset, chunk_index, chunks, chunk_dir>>
       ELSE /\ chunks' = [k \in 1..(chunk_index + 1) |->
                            IF k = chunk_index + 1 THEN PageRows ELSE chunks[k]]
            /\ chunk_dir' = WriteChunk(chunk_dir, chunk_index,
                                       [run |-> runs, rows |-> PagePositions])
            /\ offset' = NextOffset
            /\ chunk_index' = chunk_index + 1
            /\ fetch_pc' = IF ShortPage(PageRows, batch_size) THEN "done" ELSE "loop"
    /\ UNCHANGED <<dataset_rows, batch_size, runs, reading_exit>>
    /\ UNCHANGED <<closure_vars, join_vars, matcher_vars, nearest_vars>>

\* an iteration whose exception is swallowed: the loop goes on with the
\* same offset
FetchRaisesAndRetries ==
    /\ fetch_pc = "loop"
    /\ fetches' = fetches + 1
    /\ requested' = Append(requested, offset)
    /\ fetch_pc' = "loop"
    /\ UNCHANGED <<dataset_rows, batch_size, offset, chunk_index, chunks, runs, chunk_dir,
                   reading_exit>>
    /\ UNCHANGED <<closure_vars, join_vars, matcher_vars, nearest_vars>>

\* an iteration in which client.get or the processing of the page raises:
\* nothing in the loop catches, the script ends before to_parquet
FetchRaises ==
    /\ fetch_pc = "loop"
    /\ fetches' = fetches + 1
    /\ requested' = Append(requested, offset)
    /\ fetch_pc' = "raised"
    /\ UNCHANGED <<dataset_rows, batch_size, offset, chunk_index, chunks, runs, chunk_dir,
                   reading_exit>>
    /\ UNCHANGED <<closure_vars, join_vars, matcher_vars, nearest_vars>>

MaxRuns == 2      \* runs of the script

\* the script is started again after a complete run, one that ended
\* without an exception: offset and chunk_index start from 0, the
\* directory is kept as it is
\* (os.makedirs(..., exist_ok=True)); the dataset may have changed
StartRun ==
    /\ fetch_pc = "done"
    /\ runs < MaxRuns
    /\ runs' = runs + 1
    /\ dataset_rows' \in 0..MaxRows
    /\ offset' = 0
    /\ chunk_index' = 0
    /\ fetches' = 0
    /\ chunks' = <<>>
    /\ requested' = <<>>
    /\ fetch_pc' = "loop"
    /\ UNCHANGED <<batch_size, chunk_dir, reading_exit>>
    /\ UNCHANGED <<closure_vars, join_vars, matcher_vars, nearest_vars>>

\* crime_data_reading.py: glob.glob(PARQUET_DIR + "chunk_*.parquet"), the
\* chunk files of the directory by index + 1
all_paths == 1..Len(chunk_dir)

\* the rows of the remote dataset whose location_description contains
\* "School", in any case: every fourth position
AtSchool(p) == p % 4 = 0

\* df_school of a chunk file: its rows at a school, in the order of the
\* file; a row is known by its position in the dataset and the run that
\* fetched it
df_school(chunk) ==
    LET at_school == {p \in chunk.rows : AtSchool(p)}
    IN [i \in 1..Cardinality(at_school) |->
          [position |-> CHOOSE p \in at_school :
                          Cardinality({q \in at_school : q < p}) = i - 1,
           run      |-> chunk.run]]

\* one run of crime_data_reading.py after a run of the fetch has ended.
\* glob returns the files in the order of the directory listing, which is
\* any order; the chunks without a row at a school are not collected.
\* Without any chunk file the loop body never binds `usecols` and line 39
\* raises NameError before anything is written.
RunCrimeDataReading ==
    /\ fetch_pc \in {"done", "raised", "NameError"}
    /\ IF all_paths = {}
       THEN /\ reading_exit' = "NameError"
            /\ UNCHANGED crime_at_schools
       ELSE /\ \E order \in Orderings({k \in all_paths : df_school(chunk_dir[k]) # <<>>}) :
                 crime_at_schools' =
                   Flatten([k \in 1..Len(order) |-> df_school(chunk_dir[order[k]])])
            /\ reading_exit' = "ok"
    /\ UNCHANGED <<boundary_files, dfs, crime_with_school_match, join_exit>>
    /\ UNCHANGED <<dataset_rows, batch_size, offset, chunk_index, fetches, chunks, fetch_pc,
                   requested, runs, chunk_dir>>
    /\ UNCHANGED <<closure_vars, matcher_vars, nearest_vars>>

\* the script is not run
FetchIdle ==
    /\ dataset_rows = 0
    /\ batch_size = 0
    /\ offset = 0
    /\ chunk_index = 0
    /\ fetches = 0
    /\ chunks = <<>>
    /\ fetch_pc = "idle"
    /\ requested = <<>>
    /\ runs = 0
    /\ chunk_dir = <<>>
    /\ reading_exit = "none"

-----------------------------------------------------------------------------
(* crime_nearest_school.py: every crime with coordinates is joined to the  *)
(* nearest boundary centroid, the years in which the boundary of that      *)
(* school contains the crime are listed, and the crimes whose year matches *)
(* one of them are kept.  The grid is a line of cells: the centroid of a   *)
(* polygon is the mean of its cells, a distance the difference of          *)
(* positions; a distance is kept as a fraction <<numerator, denominator>>. *)
(* A date is its calendar year and month.                                  *)

\* crime_df.dropna(subset=["latitude", "longitude"])
DropNaCoordinates(crimes) == SelectSeq(crimes, LAMBDA c : c.point # NA)

RECURSIVE SumCells(_)
SumCells(cells) ==
    IF cells = {} THEN 0
    ELSE LET c == CHOOSE x \in cells : TRUE IN c + SumCells(cells \ {c})

\* the distance from a point to geometry.centroid
DistanceToCentroid(point, geom) ==
    LET n == Cardinality(geom)
        d == point * n - SumCells(geom)
    IN << IF d < 0 THEN -d ELSE d, n >>

\* a / b <= c / d
DistanceLeq(x, y) == x[1] * y[2] <= y[1] * x[2]

\* gpd.sjoin_nearest(how="left", distance_col="distance_m"): every crime
\* with every centroid row at the least distance from it, the crimes in
\* their order; a crime without a nearest row is kept with the columns of
\* the right side missing
sjoin_nearest(crimes, centroids) ==
    Flatten([i \in 1..Len(crimes) |->
      LET Dist(j) == DistanceToCentroid(crimes[i].point, centroids[j].geometry)
          nearest == { j \in 1..Len(centroids) :
                         \A k \in 1..Len(centroids) : DistanceLeq(Dist(j), Dist(k)) }
          hits == TakeRows(centroids, nearest)
      IN IF hits = <<>>
         THEN << [id         |-> crimes[i].id,
                  date       |-> crimes[i].date,
                  point      |-> crimes[i].point,
                  SCHOOL_ID  |-> NA,
                  SCHOOL_NM  |-> NoStr,
                  GRADE_CAT  |-> "",
                  distance_m |-> NA] >>
         ELSE [j \in 1..Len(hits) |->
                 [id         |-> crimes[i].id,
                  date       |-> crimes[i].date,
                  point      |-> crimes[i].point,
                  SCHOOL_ID  |-> hits[j].SCHOOL_ID,
                  SCHOOL_NM  |-> hits[j].SCHOOL_NM,
                  GRADE_CAT  |-> hits[j].GRADE_CAT,
                  distance_m |-> DistanceToCentroid(crimes[i].point, hits[j].geometry)]]])

\* find_containing_years: the file_year of every boundary row of the
\* assigned school whose polygon contains the point; a missing SCHOOL_ID
\* is equal to no SCHOOL_ID, itself included
find_containing_years(crime_row, schools_gdf) ==
    LET polys == SelectSeq(schools_gdf, LAMBDA r : /\ crime_row.SCHOOL_ID # NA
                                                   /\ r.SCHOOL_ID = crime_row.SCHOOL_ID)
        inside == SelectSeq(polys, LAMBDA r : crime_row.point \in r.geometry)
    IN [i \in 1..Len(inside) |-> inside[i].file_year]

\* date.strftime("%y"): the last two digits of the calendar year
YrSuffix(date) == << (date.year % 100) \div 10, date.year % 10 >>

\* yr.endswith(suffix)
EndsWith(code, suffix) ==
    /\ Len(code) >= Len(suffix)
    /\ SubSeq(code, Len(code) - Len(suffix) + 1, Len(code)) = suffix

\* any(...) of line 97 reaches a year code that is None, which has no
\* endswith: the codes are tried in order and any() stops at the first
\* that ends with the suffix
MaskRaises(review) ==
    \E i \in 1..Len(review) :
      \E k \in 1..Len(review[i].years_in_boundary) :
        /\ review[i].years_in_boundary[k] = NoCode
        /\ \A j \in 1..(k - 1) :
             ~EndsWith(review[i].years_in_boundary[j], YrSuffix(review[i].date))

\* mask: any(yr.endswith(row["yr_suffix"]) for yr in row["years_in_boundary"])
Mask(review) ==
    { i \in 1..Len(review) :
        \E k \in 1..Len(review[i].years_in_boundary) :
          /\ review[i].years_in_boundary[k] # NoCode
          /\ EndsWith(review[i].years_in_boundary[k], YrSuffix(review[i].date)) }

\* assigned["years_in_boundary"] = assigned.apply(find_containing_years, axis=1)
WithYearsInBoundary(joined, schools_gdf) ==
    [i \in 1..Len(joined) |->
       [id                |-> joined[i].id,
        date              |-> joined[i].date,
        point             |-> joined[i].point,
        SCHOOL_ID         |-> joined[i].SCHOOL_ID,
        SCHOOL_NM         |-> joined[i].SCHOOL_NM,
        GRADE_CAT         |-> joined[i].GRADE_CAT,
        distance_m        |-> joined[i].distance_m,
        years_in_boundary |-> find_containing_years(joined[i], schools_gdf)]]

\* review_df: the columns of `cols`, distance_m renamed
ReviewOf(rows) ==
    [i \in 1..Len(rows) |->
       [date               |-> rows[i].date,
        id                 |-> rows[i].id,
        point              |-> rows[i].point,
        SCHOOL_ID          |-> rows[i].SCHOOL_ID,
        SCHOOL_NM          |-> rows[i].SCHOOL_NM,
        GRADE_CAT          |-> rows[i].GRADE_CAT,
        nearest_distance_m |-> rows[i].distance_m,
        years_in_boundary  |-> rows[i].years_in_boundary]]

\* one run of the script: the review file is written before the mask is
\* computed, the filtered file after it.  When no crime has coordinates
\* the join is empty, apply over the empty frame gives back a frame and
\* the assignment of line 69 raises ValueError before either file is
\* written
RunCrimeNearestSchool ==
    /\ nearest_exit = "none"
    /\ assigned' = WithYearsInBoundary(
                      sjoin_nearest(DropNaCoordinates(crime_at_schools), school_shapes),
                      school_shapes)
    /\ IF assigned' = <<>>
       THEN /\ review_df' = review_df
            /\ filtered_df' = filtered_df
            /\ nearest_exit' = "ValueError"
       ELSE /\ review_df' = ReviewOf(assigned')
            /\ IF MaskRaises(review_df')
               THEN /\ filtered_df' = filtered_df
                    /\ nearest_exit' = "AttributeError"
               ELSE /\ filtered_df' = TakeRows(review_df', Mask(review_df'))
                    /\ nearest_exit' = "ok"
    /\ UNCHANGED <<closure_vars, join_vars, matcher_vars, fetch_vars>>

\* the script has not run
NearestIdle ==
    /\ assigned = <<>>
    /\ review_df = <<>>
    /\ filtered_df = <<>>
    /\ nearest_exit = "none"

-----------------------------------------------------------------------------
(* The input files.                                                        *)

\* the boundary files in the order they are concatenated
Files == << [file_year |-> <<1,2,1,3>>, GRADE_CAT |-> "ES"],
            [file_year |-> <<1,2,1,3>>, GRADE_CAT |-> "HS"],
            [file_year |-> <<1,8,1,9>>, GRADE_CAT |-> "ES"] >>

\* the files a school has a boundary in: closed after 2012-13 with one or
\* with two grade categories, or still open in the last year of the series
Histories == { {1}, {1, 2}, {1, 3} }

ShapesOf(h) ==
    Flatten([f \in 1..Len(Files) |->
      Flatten([k \in 1..Len(Schools) |->
        IF f \in h[Schools[k]]
        THEN << [SCHOOL_ID  |-> Schools[k],
                 SCHOOL_NM  |-> CanonName(Schools[k]),
                 GRADE_CAT  |-> Files[f].GRADE_CAT,
                 file_year  |-> Files[f].file_year,
                 SCHOOL_ADD |-> CanonAddr(Schools[k])] >>
        ELSE <<>>])])

ShapeTables == { ShapesOf(h) : h \in [Ids -> Histories] }

\* the 2013 closure list: one school, whose name and address resemble the
\* canonical ones of a school, at least one of them at the welcoming
\* threshold and the other at it or just below
RawTables ==
    { << [School    |-> [kind |-> "nm", of |-> q[1], ratio |-> q[2]],
          SCHOOL_NM |-> [kind |-> "nm", of |-> q[1], ratio |-> q[2]],
          Address   |-> [kind |-> "add", of |-> q[1], ratio |-> q[3]]] >> :
      q \in {x \in Ids \X {89, 90} \X {89, 90} : x[2] = 90 \/ x[3] = 90} }

\* the lists whose name and address both reach the welcoming threshold
ConfidentRawTables ==
    { t \in RawTables : t[1].School.ratio = 90 /\ t[1].Address.ratio = 90 }

Init ==
    /\ school_shapes \in ShapeTables
    /\ raw_2013 \in RawTables
    /\ ClosureIdle
    /\ JoinIdle
    /\ MatcherIdle
    /\ FetchIdle
    /\ NearestIdle

Next ==
    \/ RunSchoolOpeningMap
    \/ RunFinalSchoolClosure
    \/ RunWelcomingSchoolAdditions
    \/ RunFinalizeClosures

Spec == Init /\ [][Next]_vars

-----------------------------------------------------------------------------
(* school_opening_map.py over a longer boundary series.  The series has a  *)
(* file per academic year and grade category; a (SCHOOL_ID, GRADE_CAT)     *)
(* pair has a boundary row in any subset of the years.                     *)

OpeningYears == << <<1,2,1,3>>, <<1,3,1,4>>, <<1,4,1,5>>, <<1,8,1,9>> >>

OpeningPairs == << [SCHOOL_ID |-> 100, GRADE_CAT |-> "ES"],
                   [SCHOOL_ID |-> 100, GRADE_CAT |-> "HS"],
                   [SCHOOL_ID |-> 1,   GRADE_CAT |-> "ES"] >>

\* the years each pair may have rows in
OpeningHistories ==
    { h \in [1..Len(OpeningPairs) -> SUBSET (1..Len(OpeningYears))] :
        h[3] \subseteq {3, 4} }

OpeningShapesOf(h) ==
    Flatten([y \in 1..Len(OpeningYears) |->
      Flatten([k \in 1..Len(OpeningPairs) |->
        IF y \in h[k]
        THEN << [SCHOOL_ID  |-> OpeningPairs[k].SCHOOL_ID,
                 SCHOOL_NM  |-> CanonName(OpeningPairs[k].SCHOOL_ID),
                 GRADE_CAT  |-> OpeningPairs[k].GRADE_CAT,
                 file_year  |-> OpeningYears[y],
                 SCHOOL_ADD |-> CanonAddr(OpeningPairs[k].SCHOOL_ID)] >>
        ELSE <<>>])])

OpeningShapeTables == { OpeningShapesOf(h) : h \in OpeningHistories }

InitOpening ==
    /\ school_shapes \in OpeningShapeTables
    /\ raw_2013 \in ConfidentRawTables
    /\ ClosureIdle
    /\ JoinIdle
    /\ MatcherIdle
    /\ FetchIdle
    /\ NearestIdle

NextOpening == RunSchoolOpeningMap

SpecOpening == InitOpening /\ [][NextOpening]_vars

-----------------------------------------------------------------------------
(* welcoming_school_additions.py over boundaries with geometry.  School 1  *)
(* closes: it has a boundary in 2012-13 only, in 2012-13 and 2013-14, or   *)
(* as an elementary school in 2012-13 and as a high school up to 2013-14.  *)
(* School 2 has the same boundary in every year of the series.             *)

TransferYears == << <<1,2,1,3>>, <<1,3,1,4>>, <<1,4,1,5>>, <<1,8,1,9>> >>

\* the years school 1 has a boundary in, by grade category
TransferHistories ==
    { [ES |-> {1},    HS |-> {}],
      [ES |-> {1, 2}, HS |-> {}],
      [ES |-> {1},    HS |-> {1, 2}] }

Geometries == (SUBSET (1..MaxCell)) \ {{}}

BoundaryOf(id, cat, code, geom) ==
    [SCHOOL_ID  |-> id,
     SCHOOL_NM  |-> CanonName(id),
     GRADE_CAT  |-> cat,
     file_year  |-> code,
     SCHOOL_ADD |-> CanonAddr(id),
     geometry   |-> geom]

TransferShapesOf(h, g1, g2) ==
    Flatten([y \in 1..Len(TransferYears) |->
      (IF y \in h.ES THEN << BoundaryOf(1, "ES", TransferYears[y], g1) >> ELSE <<>>)
      \o (IF y \in h.HS THEN << BoundaryOf(1, "HS", TransferYears[y], g1) >> ELSE <<>>)
      \o << BoundaryOf(2, "ES", TransferYears[y], g2) >>])

TransferShapeTables ==
    { TransferShapesOf(h, g1, g2) :
        h \in TransferHistories, g1 \in Geometries, g2 \in Geometries }

InitTransfer ==
    /\ school_shapes \in TransferShapeTables
    /\ raw_2013 \in { t \in ConfidentRawTables : t[1].School.of = 1 }
    /\ ClosureIdle
    /\ JoinIdle
    /\ MatcherIdle
    /\ FetchIdle
    /\ NearestIdle

NextTransfer ==
    \/ RunSchoolOpeningMap
    \/ RunWelcomingSchoolAdditions

SpecTransfer == InitTransfer /\ [][NextTransfer]_vars

-----------------------------------------------------------------------------
(* 03_yearly_school_data_join.py on its own.                               *)

InitJoin ==
    /\ boundary_files \in BoundaryDirectories
    /\ crime_at_schools \in CrimeTables
    /\ dfs = <<>>
    /\ crime_with_school_match = <<>>
    /\ join_exit = "none"
    /\ school_shapes = <<>>
    /\ raw_2013 = <<>>
    /\ ClosureIdle
    /\ MatcherIdle
    /\ FetchIdle
    /\ NearestIdle

NextJoin == RunYearlySchoolDataJoin

SpecJoin == InitJoin /\ [][NextJoin]_vars

-----------------------------------------------------------------------------
(* 03_yearly_school_data_join.py over one boundary file of two rows, named *)
(* by any sequence of a few pieces: "SY", two year codes, two digits, a    *)
(* separator and a year code in the digits of another script.              *)

MaxSegments == 3  \* pieces of a base name

NameSegments ==
    << <<"S", "Y">>, <<"1", "2", "1", "3">>, <<"1", "4", "1", "5">>, <<"1", "4">>, <<"_">>,
       <<"U+0661", "U+0662", "U+0661", "U+0663">> >>

RECURSIVE BaseNames(_)
BaseNames(n) ==
    IF n = 0 THEN { <<>> }
    ELSE LET shorter == BaseNames(n - 1)
         IN shorter \cup { b \o NameSegments[k] : b \in shorter, k \in 1..Len(NameSegments) }

InitFileYear ==
    /\ \E b \in BaseNames(MaxSegments) :
         boundary_files =
           { [name    |-> [base |-> b, network_or_charter |-> FALSE],
              columns |-> <<"SCHOOL_ID", "SCHOOL_NM", "the_geom", "SCHOOL_ADD", "GRADE_CAT", "BOUNDARYGR">>,
              rows    |-> <<BoundaryRow(1, "ES", {1}), BoundaryRow(2, "ES", {2})>>,
              parses  |-> TRUE] }
    /\ crime_at_schools = << [id |-> 7, date |-> 2013, primary_type |-> "THEFT", point |-> 1] >>
    /\ dfs = <<>>
    /\ crime_with_school_match = <<>>
    /\ join_exit = "none"
    /\ school_shapes = <<>>
    /\ raw_2013 = <<>>
    /\ ClosureIdle
    /\ MatcherIdle
    /\ FetchIdle
    /\ NearestIdle

NextFileYear == RunYearlySchoolDataJoin

SpecFileYear == InitFileYear /\ [][NextFileYear]_vars

-----------------------------------------------------------------------------
(* The matchers on their own.                                              *)

\* raw names that resemble the name of school 1, around both thresholds
MatchRawRows ==
    { [School    |-> [kind |-> "nm", of |-> 1, ratio |-> q],
       SCHOOL_NM |-> [kind |-> "nm", of |-> 1, ratio |-> q]] : q \in {79, 80, 89, 90} }

MatchRawTables == UNION { [1..n -> MatchRawRows] : n \in 1..MaxRaw }

\* candidate tables in which every school carries the name of school 1:
\* the candidates are told apart by SCHOOL_ID, not by name
HomonymShapeTables ==
    { [i \in 1..Len(t) |-> [t[i] EXCEPT !.SCHOOL_NM = CanonName(1)]] : t \in ShapeTables }

InitMatcher ==
    /\ match_raw_df \in MatchRawTables
    /\ match_shapes_df \in ShapeTables \cup HomonymShapeTables
    /\ match_results = [c \in MatcherCalls |-> <<>>]
    /\ school_shapes = <<>>
    /\ raw_2013 = <<>>
    /\ ClosureIdle
    /\ JoinIdle
    /\ FetchIdle
    /\ NearestIdle

NextMatcher ==
    \/ CallFuzzyMatchIds
    \/ CallMatchSchoolNames

SpecMatcher == InitMatcher /\ [][NextMatcher]_vars

-----------------------------------------------------------------------------
(* 01_crime_data_cleaning.py on its own.  The script runs its loop until   *)
(* it leaves it: every iteration that can be taken is taken.               *)

InitFetch ==
    /\ dataset_rows \in 0..MaxRows
    /\ batch_size \in 1..MaxBatch
    /\ offset = 0
    /\ chunk_index = 0
    /\ fetches = 0
    /\ chunks = <<>>
    /\ fetch_pc = "loop"
    /\ requested = <<>>
    /\ runs = 1
    /\ chunk_dir = <<>>
    /\ reading_exit = "none"
    /\ school_shapes = <<>>
    /\ raw_2013 = <<>>
    /\ ClosureIdle
    /\ JoinIdle
    /\ MatcherIdle
    /\ NearestIdle

NextFetch == FetchPage

SpecFetch == InitFetch /\ [][NextFetch]_vars /\ WF_vars(FetchPage)

\* the loop with iterations that raise
NextAbort ==
    \/ FetchPage
    \/ FetchRaises

SpecAbort == InitFetch /\ [][NextAbort]_vars

\* complete runs, one after the other, and runs of the reader between them
NextRerun ==
    \/ FetchPage
    \/ StartRun
    \/ RunCrimeDataReading

SpecRerun == InitFetch /\ [][NextRerun]_vars

-----------------------------------------------------------------------------
(* crime_nearest_school.py on its own.  School 1 has a boundary in 2012-13 *)
(* and in 2013-14, school 2 the last cell in both years; one crime is of   *)
(* June 2013 and one of September 2013, each in a cell or without          *)
(* coordinates.  school_shapes.parquet can also be empty, or hold a third  *)
(* boundary row of the 2012-13 shape of school 1 that                      *)
(* 03_yearly_school_data_join.py wrote without a year code (line 91) or    *)
(* without a SCHOOL_ID.                                                    *)

CrimeDates == << [year |-> 2013, month |-> 6], [year |-> 2013, month |-> 9] >>

NearestCrimeTables ==
    { [k \in 1..Len(CrimeDates) |-> [id |-> k, date |-> CrimeDates[k], point |-> cells[k]]] :
        cells \in [1..Len(CrimeDates) -> {NA} \cup (1..MaxCell)] }

\* the boundary rows of the two schools in the two years
YearlyBoundaries(g, gnext) ==
    << BoundaryOf(1, "ES", <<1,2,1,3>>, g),
       BoundaryOf(2, "ES", <<1,2,1,3>>, {MaxCell}),
       BoundaryOf(1, "ES", <<1,3,1,4>>, gnext),
       BoundaryOf(2, "ES", <<1,3,1,4>>, {MaxCell}) >>

NearestShapeTables ==
    { YearlyBoundaries(g, gnext) : g \in Geometries, gnext \in Geometries }
    \cup { <<>> }
    \cup { << BoundaryOf(1, "ES", NoCode, g) >> \o YearlyBoundaries(g, g) : g \in Geometries }
    \cup { YearlyBoundaries(g, gnext) \o << BoundaryOf(1, "ES", NoCode, g) >> :
           g \in Geometries, gnext \in Geometries }
    \cup { YearlyBoundaries(g, g) \o
             << [BoundaryOf(1, "ES", <<1,2,1,3>>, g) EXCEPT !.SCHOOL_ID = NA] >> :
           g \in Geometries }

InitNearest ==
    /\ crime_at_schools \in NearestCrimeTables
    /\ school_shapes \in NearestShapeTables
    /\ boundary_files = {}
    /\ dfs = <<>>
    /\ crime_with_school_match = <<>>
    /\ join_exit = "none"
    /\ raw_2013 = <<>>
    /\ ClosureIdle
    /\ MatcherIdle
    /\ FetchIdle
    /\ NearestIdle

NextNearest == RunCrimeNearestSchool

SpecNearest == InitNearest /\ [][NextNearest]_vars

-----------------------------------------------------------------------------
(* 04a_finalize_closures.py over a school_closure_years.csv that has lost  *)
(* columns, with or without the outputs of an earlier pass on disk.        *)

\* a table read from a file that has only the columns cols; a file
\* without any column has no rows
RestrictColumns(rows, cols) ==
    IF cols = BaseColumns THEN rows
    ELSE IF cols = {} THEN <<>>
    ELSE [i \in 1..Len(rows) |-> [c \in cols |-> rows[i][c]]]

\* school_closure_years_final.csv as an earlier pass left it
EarlierFinal ==
    << [SCHOOL_ID |-> 9, SCHOOL_NM |-> CanonName(9), GRADE_CAT |-> "ES",
        last_open_year |-> 2012, closure_year |-> 2013] >>

\* the boundary series in which every school has one grade category
SchemaShapeTables == { ShapesOf(h) : h \in [Ids -> {{1}, {1, 3}}] }

InitSchema ==
    /\ school_shapes \in SchemaShapeTables
    /\ raw_2013 \in { t \in ConfidentRawTables : t[1].School.of = 1 }
    /\ closure_years_columns \in SUBSET BaseColumns
    /\ \E rep_names \in RepNames(school_shapes) :
         closure_years = RestrictColumns(LastOpen(school_shapes, rep_names),
                                         closure_years_columns)
    /\ address_review = AddressReview(school_shapes, raw_2013)
    /\ \/ /\ written = {"closure_years", "address_review"}
          /\ closure_final = <<>>
       \/ /\ written = {"closure_years", "address_review",
                         "reference_matched", "years_review", "closure_final"}
          /\ closure_final = EarlierFinal
    /\ closure_reference = <<>>
    /\ closure_reviewed = <<>>
    /\ reference_matched = <<>>
    /\ years_review = <<>>
    /\ computed = <<>>
    /\ to_add_addr = <<>>
    /\ ref_match = <<>>
    /\ closure_matched = <<>>
    /\ to_add = <<>>
    /\ raw_2013_matched = <<>>
    /\ missing = <<>>
    /\ finalize_exit = "none"
    /\ area_transfers = <<>>
    /\ transfer_exit = "none"
    /\ JoinIdle
    /\ MatcherIdle
    /\ FetchIdle
    /\ NearestIdle

NextSchema ==
    \/ RunFinalizeClosures
    \/ RerunFinalizeClosures

SpecSchema == InitSchema /\ [][NextSchema]_vars

-----------------------------------------------------------------------------
(* Properties of the closure reconciliation.                               *)

IdsOf(rows) == {rows[i].SCHOOL_ID : i \in 1..Len(rows)}

\* the greatest WRatio of a name against the names of the boundary rows
BestScore(name, shapes) ==
    LET scores == {WRatio(name, shapes[i].SCHOOL_NM) : i \in 1..Len(shapes)}
    IN IF scores = {} THEN 0 ELSE CHOOSE m \in scores : \A x \in scores : x <= m

\* the rows that are concatenated for the final table: the computed rows
\* and the matched reference rows of schools without a computed row
CandidatesOf(id) ==
    {r \in Range(computed) : r.SCHOOL_ID = id}
    \cup {BaseCols(<<r>>)[1] : r \in {x \in Range(reference_matched) :
                                        /\ x.SCHOOL_ID = id
                                        /\ x.SCHOOL_ID \notin IdsOf(computed)}}

\* C1: the final closure table left on disk by 04a_finalize_closures.py has
\* at most one row per SCHOOL_ID.
C1_OneRowPerSchool ==
    Finalized =>
      \A i, j \in 1..Len(closure_final) :
        closure_final[i].SCHOOL_ID = closure_final[j].SCHOOL_ID => i = j

\* C1 witness: a finalized table whose computed input has two rows for one
\* SCHOOL_ID and whose reference list matched another school twice.
C1_Witness ==
    /\ Finalized
    /\ \E i, j \in 1..Len(computed) :
         i < j /\ computed[i].SCHOOL_ID = computed[j].SCHOOL_ID
    /\ \E i, j \in 1..Len(reference_matched) :
         /\ i < j
         /\ reference_matched[i].SCHOOL_ID = reference_matched[j].SCHOOL_ID
         /\ reference_matched[i].SCHOOL_ID \notin IdsOf(computed)

\* C2: every row of school_closure_years.csv and of
\* school_closure_years_final.csv, after any of the scripts that write
\* them, has closure_year = last_open_year + 1; a row whose years are
\* missing does not have it.
C2_ClosureYearFollowsLastOpen ==
    /\ \A i \in 1..Len(closure_years) :
         /\ closure_years[i].last_open_year # NA
         /\ closure_years[i].closure_year = closure_years[i].last_open_year + 1
    /\ \A i \in 1..Len(closure_final) :
         /\ closure_final[i].last_open_year # NA
         /\ closure_final[i].closure_year = closure_final[i].last_open_year + 1

\* C3: the row kept for a SCHOOL_ID in the final table is one of the
\* concatenated rows of that SCHOOL_ID and none of them has an earlier
\* closure_year; a row without closure_year is kept only when no row of
\* that SCHOOL_ID has one.
C3_EarliestClosureWins ==
    Finalized =>
      \A i \in 1..Len(closure_final) :
        LET f == closure_final[i]
        IN /\ f \in CandidatesOf(f.SCHOOL_ID)
           /\ \A c \in CandidatesOf(f.SCHOOL_ID) :
                c.closure_year # NA =>
                  f.closure_year # NA /\ f.closure_year <= c.closure_year

\* C3 witness: two concatenated rows of one SCHOOL_ID, the later closure
\* first.
C3_Witness ==
    /\ Finalized
    /\ \E i, j \in 1..Len(reference_matched) :
         /\ i < j
         /\ reference_matched[i].SCHOOL_ID = reference_matched[j].SCHOOL_ID
         /\ reference_matched[i].SCHOOL_ID \notin IdsOf(computed)
         /\ reference_matched[i].closure_year > reference_matched[j].closure_year

\* C4: every SCHOOL_ID of a confident address-review row (score >= 90)
\* that has no computed row is in the final table with last_open_year 2012
\* and closure_year 2013, and every reference-matched SCHOOL_ID without a
\* computed row is in the final table.
C4_UnionOfThreeSources ==
    Finalized =>
      /\ \A i \in 1..Len(address_review) :
           LET a == address_review[i]
           IN (a.addr_match_score >= 90 /\ a.matched_SCHOOL_ID \notin IdsOf(computed))
              => \E k \in 1..Len(closure_final) :
                   /\ closure_final[k].SCHOOL_ID = a.matched_SCHOOL_ID
                   /\ closure_final[k].last_open_year = 2012
                   /\ closure_final[k].closure_year = 2013
      /\ \A i \in 1..Len(reference_matched) :
           reference_matched[i].SCHOOL_ID \notin IdsOf(computed)
           => reference_matched[i].SCHOOL_ID \in IdsOf(closure_final)

\* C5: for every SCHOOL_ID with a computed row, the final table has
\* exactly one row of that SCHOOL_ID and it is one of the computed rows.
C5_ComputedRowsNotOverwritten ==
    Finalized =>
      \A id \in IdsOf(computed) :
        /\ Cardinality({k \in 1..Len(closure_final) : closure_final[k].SCHOOL_ID = id}) = 1
        /\ \A k \in 1..Len(closure_final) :
             closure_final[k].SCHOOL_ID = id => closure_final[k] \in Range(computed)

\* C5 witness: a matched reference row names a school that has a computed
\* row and gives it an earlier closure_year.
C5_Witness ==
    /\ Finalized
    /\ \E i \in 1..Len(reference_matched), k \in 1..Len(computed) :
         /\ reference_matched[i].SCHOOL_ID = computed[k].SCHOOL_ID
         /\ reference_matched[i].closure_year < computed[k].closure_year

\* C6: a match is accepted exactly when its score is at least the
\* threshold: fuzzy_match_ids keeps matched_name and matched_id iff
\* score >= threshold and keeps the best score either way;
\* match_school_names assigns SCHOOL_ID and GRADE_CAT iff score >= threshold.
C6_AcceptedIffScoreReachesThreshold ==
    /\ \A i \in 1..Len(ref_match) :
         LET m == ref_match[i]
         IN /\ m.score = BestScore(closure_reference[i].SCHOOL_NM, school_shapes)
            /\ (m.score >= NameThreshold) <=> (m.matched_id # NA)
            /\ (m.score >= NameThreshold) <=> (m.matched_name # NoStr)
    /\ \A i \in 1..Len(raw_2013_matched) :
         LET m == raw_2013_matched[i]
         IN /\ (m.match_score >= WelcomingThreshold) <=> (m.SCHOOL_ID # NA)
            /\ (m.match_score >= WelcomingThreshold) <=> (m.GRADE_CAT # "")

\* C6 witness: a reference name scoring exactly the threshold, one scoring
\* just below it, and a 2013-list name scoring exactly its threshold.
C6_Witness ==
    /\ \E i, j \in 1..Len(ref_match) :
         /\ ref_match[i].score = NameThreshold
         /\ ref_match[j].score = NameThreshold - 1
    /\ \E i \in 1..Len(raw_2013_matched) :
         raw_2013_matched[i].match_score = WelcomingThreshold

\* C7: every reference row whose best score is below the threshold is
\* nulled and is in school_closure_reference_matched.csv with its score.
C7_LowScoresAreInReviewFile ==
    Finalized =>
      \A i \in 1..Len(ref_match) :
        ref_match[i].score < NameThreshold =>
          /\ ref_match[i].matched_id = NA
          /\ ref_match[i].matched_name = NoStr
          /\ \E k \in 1..Len(reference_matched) :
               /\ reference_matched[k].SCHOOL_NM = closure_reference[i].SCHOOL_NM
               /\ reference_matched[k].score = ref_match[i].score

\* C8: a raw 2013-list row whose best score is below the threshold, and
\* which has no SCHOOL_ID, gives no row to school_closure_years.csv (the
\* rows of `missing` are the rows appended).
C8_LowScoresGiveNoClosure ==
    \A i \in 1..Len(missing) :
      /\ missing[i].match_score >= WelcomingThreshold
      /\ missing[i].SCHOOL_ID # NA

\* C9: every closure row built from the address review, in
\* 04a_finalize_closures.py (to_add_addr) and in final_school_closure.py
\* (to_add), comes from a review row with addr_match_score >= 90 and has
\* last_open_year 2012 and closure_year 2013.
C9_AddressClosuresAreConfident ==
    \A r \in Range(BaseCols(to_add_addr)) \cup Range(to_add) :
      /\ r.last_open_year = 2012
      /\ r.closure_year = 2013
      /\ \E i \in 1..Len(address_review) :
           /\ address_review[i].matched_SCHOOL_ID = r.SCHOOL_ID
           /\ address_review[i].addr_match_score >= 90

\* C10: after a run of 04a_finalize_closures.py the rows of
\* school_closure_years_reviewed.csv are in the final table left on disk.
C10_ReviewedRowsAreInFinal ==
    Finalized =>
      \A i \in 1..Len(closure_reviewed) :
        \E k \in 1..Len(closure_final) :
          /\ closure_final[k].SCHOOL_ID = closure_reviewed[i].SCHOOL_ID
          /\ closure_final[k].last_open_year = closure_reviewed[i].last_open_year
          /\ closure_final[k].closure_year = closure_reviewed[i].closure_year

\* C11: school_closure_years_review.csv holds exactly the computed rows
\* whose SCHOOL_ID has a matched reference row with another closure_year,
\* each beside such a reference year; computed rows without a reference
\* row, or whose reference years all equal their own, are not in it.  A
\* reference row whose year is blank gives no reference year.
C11_ReviewHoldsTheDiscrepancies ==
    Finalized =>
      /\ Range(BaseCols(years_review)) =
           {c \in Range(computed) :
              \E i \in 1..Len(reference_matched) :
                /\ reference_matched[i].SCHOOL_ID = c.SCHOOL_ID
                /\ reference_matched[i].closure_year # NA
                /\ reference_matched[i].closure_year # c.closure_year}
      /\ \A k \in 1..Len(years_review) :
           /\ years_review[k].closure_year_ref # NA
           /\ years_review[k].closure_year_ref # years_review[k].closure_year
           /\ \E i \in 1..Len(reference_matched) :
                /\ reference_matched[i].SCHOOL_ID = years_review[k].SCHOOL_ID
                /\ reference_matched[i].closure_year = years_review[k].closure_year_ref

\* C11 witness: a run that writes a discrepancy while another computed row
\* has no reference row and a third agrees with its reference row.
C11_Witness ==
    /\ Finalized
    /\ years_review # <<>>
    /\ \E k \in 1..Len(computed) :
         computed[k].SCHOOL_ID \notin IdsOf(reference_matched)
    /\ \E k \in 1..Len(computed), i \in 1..Len(reference_matched) :
         /\ reference_matched[i].SCHOOL_ID = computed[k].SCHOOL_ID
         /\ reference_matched[i].closure_year = computed[k].closure_year

\* the academic start years in which a pair has a boundary row, read off
\* the first two characters of file_year
StartYearsOf(id, cat) ==
    { 2000 + 10 * school_shapes[i].file_year[1] + school_shapes[i].file_year[2] :
        i \in { k \in 1..Len(school_shapes) : /\ school_shapes[k].SCHOOL_ID = id
                                             /\ school_shapes[k].GRADE_CAT = cat } }

\* the academic start years covered by the boundary series
SeriesStartYears ==
    { 2000 + 10 * school_shapes[i].file_year[1] + school_shapes[i].file_year[2] :
        i \in 1..Len(school_shapes) }

\* C12: every row of the closure table computed by school_opening_map.py
\* has as last_open_year the greatest academic start year in which its
\* (SCHOOL_ID, GRADE_CAT) pair has a boundary row and as closure_year that
\* plus one; a pair of SCHOOL_ID 100 with rows in "1213" and "1314" only
\* is in the table with last_open_year 2013 and closure_year 2014.
C12_LastOpenIsGreatestStartYear ==
    "closure_years" \in written =>
      /\ \A i \in 1..Len(closure_years) :
           LET r == closure_years[i]
               years == StartYearsOf(r.SCHOOL_ID, r.GRADE_CAT)
           IN /\ r.last_open_year \in years
              /\ \A y \in years : y <= r.last_open_year
              /\ r.closure_year = r.last_open_year + 1
      /\ \A cat \in {"ES", "HS"} :
           StartYearsOf(100, cat) = {2012, 2013} =>
             \E i \in 1..Len(closure_years) :
               /\ closure_years[i].SCHOOL_ID = 100
               /\ closure_years[i].GRADE_CAT = cat
               /\ closure_years[i].last_open_year = 2013
               /\ closure_years[i].closure_year = 2014

\* C12 witness: the table is computed from a series that reaches "1415"
\* in which school 100 has elementary rows in "1213" and "1314" only.
C12_Witness ==
    /\ "closure_years" \in written
    /\ StartYearsOf(100, "ES") = {2012, 2013}
    /\ 2014 \in SeriesStartYears
    /\ Len(closure_years) > 1

\* C13: a (SCHOOL_ID, GRADE_CAT) pair of the boundary series is in the
\* closure table computed by school_opening_map.py iff its last boundary
\* year is earlier than the last academic year of the series.
C13_ClosedIffGoneBeforeSeriesEnd ==
    "closure_years" \in written =>
      \A k \in 1..Len(school_shapes) :
        LET id    == school_shapes[k].SCHOOL_ID
            cat   == school_shapes[k].GRADE_CAT
            listed == \E i \in 1..Len(closure_years) :
                        /\ closure_years[i].SCHOOL_ID = id
                        /\ closure_years[i].GRADE_CAT = cat
        IN listed <=> (\E y \in SeriesStartYears :
                         \A x \in StartYearsOf(id, cat) : x < y)

\* the boundary rows whose academic year code ends in the calendar year of
\* a crime and whose polygon contains the crime
MatchingYearPolygons(c) ==
    { k \in 1..Len(school_shapes) :
        /\ school_shapes[k].file_year # NoCode
        /\ 2000 + 10 * school_shapes[k].file_year[3] + school_shapes[k].file_year[4] = c.date
        /\ c.point \in school_shapes[k].geometry }

\* C14: a crime inside exactly one polygon of its academic year gets that
\* school's SCHOOL_ID in the list of the school's grade category and no
\* other SCHOOL_ID in any of ES_schools, MS_schools, HS_schools, whatever
\* other years school_shapes holds.
C14_ContainmentReturnsOnlyTheSchool ==
    join_exit = "ok" =>
      \A i \in 1..Len(crime_at_schools) :
        LET c == crime_at_schools[i]
        IN (c.date # NA /\ Cardinality(MatchingYearPolygons(c)) = 1) =>
             LET s == school_shapes[CHOOSE k \in MatchingYearPolygons(c) : TRUE]
                 Only(cat) == IF s.GRADE_CAT = cat THEN <<s.SCHOOL_ID>> ELSE <<>>
             IN \E o \in 1..Len(crime_with_school_match) :
                  /\ crime_with_school_match[o].id = c.id
                  /\ crime_with_school_match[o].ES_schools = Only("ES")
                  /\ crime_with_school_match[o].MS_schools = Only("MS")
                  /\ crime_with_school_match[o].HS_schools = Only("HS")

\* C16: the column names of every normalised frame are left as they are
\* by a second application of the rename table.
C16_RenameIsIdempotent ==
    \A i \in 1..Len(dfs) : RenameColumns(dfs[i].columns) = dfs[i].columns

\* C16 witness: a run that normalised the files of all three naming
\* conventions.
C16_Witness ==
    /\ join_exit = "ok"
    /\ Len(dfs) = 3
    /\ \E f \in boundary_files : RenameColumns(f.columns) # f.columns

\* the rows of the matching files that parse, as (SCHOOL_ID, year code)
ParsedRows ==
    UNION { { << f.rows[k][CHOOSE j \in 1..Len(f.columns) :
                              f.columns[j] \in {"SCHOOL_ID", "SchoolID", "SCHOOLID"}],
                 FileYear(f.name) >> : k \in 1..Len(f.rows) } :
            f \in {g \in MatchingFiles(boundary_files) : g.parses} }

\* C17: whatever files of a non-empty batch fail to parse, the run
\* completes and school_shapes holds exactly the rows of the others.
C17_FailedFilesAreSkipped ==
    (join_exit # "none" /\ MatchingFiles(boundary_files) # {}) =>
      /\ join_exit = "ok"
      /\ { <<school_shapes[k].SCHOOL_ID, school_shapes[k].file_year>> :
             k \in 1..Len(school_shapes) } = ParsedRows

\* the raw rows fuzzy_match_ids accepted at a threshold
AcceptedAt(t) ==
    LET result == match_results[<<"fuzzy_match_ids", t>>][1]
    IN { i \in 1..Len(result) : result[i].matched_id # NA }

\* C15: for the same raw names and candidates, the rows fuzzy_match_ids
\* accepts at a threshold are among those it accepts at any lower one.
C15_AcceptanceIsMonotonic ==
    \A t1, t2 \in MatcherThresholds :
      ( /\ t1 <= t2
        /\ match_results[<<"fuzzy_match_ids", t1>>] # <<>>
        /\ match_results[<<"fuzzy_match_ids", t2>>] # <<>> )
      => AcceptedAt(t2) \subseteq AcceptedAt(t1)

\* C15 witness: both thresholds were used on a table with a name accepted
\* at both and a name accepted at the lower one only.
C15_Witness ==
    /\ match_results[<<"fuzzy_match_ids", 80>>] # <<>>
    /\ match_results[<<"fuzzy_match_ids", 90>>] # <<>>
    /\ AcceptedAt(90) # {}
    /\ AcceptedAt(90) # AcceptedAt(80)

\* C18: a run of 04a_finalize_closures.py over a school_closure_years.csv
\* that lacks one of SCHOOL_ID, SCHOOL_NM, GRADE_CAT, closure_year,
\* last_open_year raises (the assertion, or the read of a file without any
\* column) and creates or changes none of
\* school_closure_reference_matched.csv, school_closure_years_review.csv,
\* school_closure_years_final.csv.
C18_SchemaFailureWritesNothing ==
    [][ ~({"SCHOOL_ID", "SCHOOL_NM", "GRADE_CAT", "closure_year", "last_open_year"}
            \subseteq closure_years_columns)
        => /\ finalize_exit' = IF closure_years_columns = {} THEN "EmptyDataError"
                                                             ELSE "AssertionError"
           /\ UNCHANGED <<reference_matched, years_review, closure_final, written>> ]_vars

\* C18 witness: the run halted on the assertion with the final table of an
\* earlier pass on disk.
C18_Witness ==
    /\ finalize_exit = "AssertionError"
    /\ closure_final = EarlierFinal
    /\ "closure_year" \notin closure_years_columns

\* the sum of the rows of the chunk files
RECURSIVE RowsWritten(_)
RowsWritten(files) ==
    IF files = <<>> THEN 0 ELSE Head(files) + RowsWritten(Tail(files))

\* the run has left the while loop: it went on to the end of the script,
\* or to the NameError of line 118 after an empty first page
LoopEnded == fetch_pc \in {"done", "NameError"}

\* C19: the fetch loop ends; when it has ended it has fetched
\* floor(N/B)+1 pages, the last of them the only one shorter than B, and
\* written ceil(N/B) chunk files, none empty, holding the N rows; it never
\* fetches more than that, and never again once it has ended.
C19_FetchTerminates ==
    /\ <>LoopEnded
    /\ [](fetches <= (dataset_rows \div batch_size) + 1)
    /\ [](LoopEnded =>
            /\ fetches = (dataset_rows \div batch_size) + 1
            /\ Len(chunks) = (dataset_rows + batch_size - 1) \div batch_size
            /\ \A k \in 1..Len(chunks) : chunks[k] > 0
            /\ \A k \in 1..(Len(chunks) - 1) : chunks[k] = batch_size
            /\ RowsWritten(chunks) = dataset_rows)
    /\ [][LoopEnded => fetches' = fetches]_vars

\* C19 witness: the loop has ended after several full pages and an empty
\* one.
C19_Witness ==
    /\ fetch_pc = "done"
    /\ dataset_rows = 3 * batch_size
    /\ batch_size > 1
    /\ fetches = 4

\* C20: a call of a matcher changes neither raw_df nor shapes_df, and a
\* call with a threshold used before returns what it returned then.
C20_MatchersArePure ==
    [][ /\ match_raw_df' = match_raw_df
        /\ match_shapes_df' = match_shapes_df
        /\ \A c \in MatcherCalls :
             match_results[c] # <<>> => match_results'[c] = match_results[c] ]_vars

\* the chunk files that hold the row at position p
ChunksHolding(p) == { k \in 1..Len(chunk_dir) : p \in chunk_dir[k].rows }

\* C21: at the head of every iteration offset = chunk_index * batch_size;
\* chunk i holds exactly the rows at the positions from i * B up to, not
\* including, min((i + 1) * B, N); and when the loop has ended every row
\* of the dataset is in exactly one chunk.
C21_ChunksPartitionTheRows ==
    /\ fetch_pc = "loop" => offset = chunk_index * batch_size
    /\ Len(chunk_dir) = chunk_index
    /\ \A k \in 1..Len(chunk_dir) :
         chunk_dir[k].rows =
           { p \in 0..(dataset_rows - 1) :
               p >= (k - 1) * batch_size /\ p < k * batch_size }
    /\ LoopEnded =>
         \A p \in 0..(dataset_rows - 1) : Cardinality(ChunksHolding(p)) = 1

\* C21 witness: the loop has ended after two full chunks and a short one.
C21_Witness ==
    /\ fetch_pc = "done"
    /\ batch_size > 1
    /\ Len(chunk_dir) = 3
    /\ Cardinality(chunk_dir[3].rows) < batch_size

\* the first candidate with the greatest score for a raw name
FirstBest(nm, ref_names) ==
    CHOOSE i \in 1..Len(ref_names) :
      /\ \A j \in 1..Len(ref_names) : WRatio(nm, ref_names[j]) <= WRatio(nm, ref_names[i])
      /\ \A j \in 1..(i - 1) : WRatio(nm, ref_names[j]) < WRatio(nm, ref_names[i])

\* C22: for every raw name fuzzy_match_ids accepts, the name and the
\* SCHOOL_ID it returns are those of the first candidate in list order
\* with the greatest score, also when several candidates carry the same
\* name.
C22_TiesGoToTheFirstCandidate ==
    \A t \in MatcherThresholds :
      match_results[<<"fuzzy_match_ids", t>>] # <<>> =>
        LET result == match_results[<<"fuzzy_match_ids", t>>][1]
            names  == NameColumn(match_shapes_df)
            ids    == IdColumn(match_shapes_df)
        IN \A i \in 1..Len(result) :
             result[i].matched_id # NA =>
               /\ result[i].matched_name = names[FirstBest(match_raw_df[i].School, names)]
               /\ result[i].matched_id = ids[FirstBest(match_raw_df[i].School, names)]

\* C23: a row that final_school_closure.py or
\* welcoming_school_additions.py added to school_closure_years.csv (a row
\* of a SCHOOL_ID that school_opening_map.py did not compute) is still in
\* the file after every later run of school_opening_map.py,
\* final_school_closure.py or welcoming_school_additions.py.
C23_AddedRowsAreKept ==
    [][ \A i \in 1..Len(closure_years) :
          (\A rep_names \in RepNames(school_shapes) :
             closure_years[i].SCHOOL_ID \notin IdsOf(LastOpen(school_shapes, rep_names)))
          => \E j \in 1..Len(closure_years') : closure_years'[j] = closure_years[i] ]_vars

\* C24: after a run of welcoming_school_additions.py, for every record of
\* the closure table it read with a closure_year Y in 2008..2018, every
\* boundary of that school in the academic year starting in Y - 1 (its
\* last open year) and every boundary of a school not closed in Y, in the
\* academic year starting in Y, that overlap, school_area_transfers.csv
\* has a row from the closed school to the receiving one for Y.
C24_OverlapsAreTransferred ==
    [][ RunWelcomingSchoolAdditions =>
        \A c \in Range(closure_years) :
          (c.closure_year >= TransferFirstYear /\ c.closure_year <= TransferLastYear) =>
            LET closed == { x \in Range(closure_years) : x.closure_year = c.closure_year }
            IN \A b, r \in Range(school_shapes) :
                 ( /\ b.SCHOOL_ID = c.SCHOOL_ID
                   /\ b.GRADE_CAT = c.GRADE_CAT
                   /\ AcademicYearStart(b.file_year) = c.closure_year - 1
                   /\ AcademicYearStart(r.file_year) = c.closure_year
                   /\ r.SCHOOL_ID \notin { x.SCHOOL_ID : x \in closed }
                   /\ b.geometry \cap r.geometry # {} )
                 => \E t \in Range(area_transfers') :
                      /\ t.Closed_SCHOOL_ID = c.SCHOOL_ID
                      /\ t.Receiving_SCHOOL_ID = r.SCHOOL_ID
                      /\ t.closure_year = c.closure_year ]_vars

\* a row of the containment review has a year code that ends with the last
\* two digits of the calendar year of its date
KeptByTheRule(r) ==
    \E k \in 1..Len(r.years_in_boundary) :
      /\ r.years_in_boundary[k] # NoCode
      /\ 10 * r.years_in_boundary[k][3] + r.years_in_boundary[k][4] = r.date.year % 100

\* C25: after a run, a row of the containment review is kept exactly when
\* the last two digits of one of the year codes in its years_in_boundary
\* are the last two digits of the calendar year of its date; a row with an
\* empty list is discarded; the kept rows are the review rows themselves,
\* in order.
C25_KeptIffAYearCodeEndsWithTheYear ==
    nearest_exit # "none" =>
      LET kept == { i \in 1..Len(review_df) : KeptByTheRule(review_df[i]) }
      IN /\ filtered_df = TakeRows(review_df, kept)
         /\ \A i \in 1..Len(review_df) :
              review_df[i].years_in_boundary = <<>> => i \notin kept
         /\ \A i \in 1..Len(review_df) :
              (review_df[i] \in Range(filtered_df)) <=> KeptByTheRule(review_df[i])

\* the academic year of a date by the rule of the map scripts
\* (05a_crime_boundary_map.py lines 58-62)
AcademicYearOf(date) == IF date.month >= 7 THEN date.year ELSE date.year - 1

\* the crime of a review row lies in the boundary its school has in the
\* academic year of the crime
InBoundaryOfItsYear(r) ==
    \E b \in Range(school_shapes) :
      /\ b.SCHOOL_ID = r.SCHOOL_ID
      /\ AcademicYearStart(b.file_year) = AcademicYearOf(r.date)
      /\ r.point \in b.geometry

\* C26: the filter agrees with the academic-year rule: a review row is
\* kept exactly when the crime lies in the boundary its nearest school has
\* in the academic year of the crime (starting in the calendar year for the
\* months from July on, in the year before otherwise).
C26_FilterAgreesWithAcademicYear ==
    nearest_exit = "ok" =>
      \A i \in 1..Len(review_df) :
        (review_df[i] \in Range(filtered_df)) <=> InBoundaryOfItsYear(review_df[i])

\* C30: the join gives one row for every crime with coordinates and no
\* other row, so that the number of rows is the number of such crimes.
C30_OneRowPerCrime ==
    nearest_exit = "ok" =>
      /\ Len(assigned) = Len(DropNaCoordinates(crime_at_schools))
      /\ \A c \in Range(DropNaCoordinates(crime_at_schools)) :
           Cardinality({ i \in 1..Len(assigned) : assigned[i].id = c.id }) = 1

\* C27: no offset is requested twice in a run; when the fetch or the
\* processing of page k raises, the chunks 0..k-1 are in the directory
\* with their rows, chunk k is not, the offsets requested are those of the
\* pages 0..k, and nothing is requested or written afterwards.
C27_NoRetryNoResume ==
    /\ [](\A i, j \in 1..Len(requested) : i # j => requested[i] # requested[j])
    /\ [](fetch_pc = "raised" =>
            /\ Len(chunk_dir) = chunk_index
            /\ \A k \in 1..Len(chunk_dir) :
                 chunk_dir[k].rows =
                   { p \in 0..(dataset_rows - 1) :
                       p >= (k - 1) * batch_size /\ p < k * batch_size }
            /\ requested = [i \in 1..(chunk_index + 1) |-> (i - 1) * batch_size])
    /\ [][fetch_pc = "raised" => UNCHANGED <<requested, fetches, chunk_dir, fetch_pc>>]_vars

\* C27 witness: the third page raised after two chunks were written.
C27_Witness ==
    /\ fetch_pc = "raised"
    /\ Len(chunk_dir) = 2
    /\ Len(requested) = 3

\* C28: after a complete run the chunk files the reader globs are the
\* chunks of that run and no others.
C28_OnlyTheLastRunsChunks ==
    fetch_pc = "done" =>
      /\ Cardinality(all_paths) = chunk_index
      /\ \A k \in all_paths : chunk_dir[k].run = runs

\* the positions of a base name where "SY" is followed by four digits
SYMatches(s) ==
    { i \in 1..Len(s) :
        /\ i + 5 <= Len(s)
        /\ s[i] = "S" /\ s[i + 1] = "Y"
        /\ \A k \in 2..5 : IsDigit(s[i + k]) }

\* the positions of a base name where four digits start
DigitRuns(s) ==
    { i \in 1..Len(s) : i + 3 <= Len(s) /\ \A k \in 0..3 : IsDigit(s[i + k]) }

\* the four characters from position i on, as digits
CodeAt(s, i) == [k \in 1..4 |-> DigitValue(s[i + k - 1])]

Least(S) == CHOOSE m \in S : \A x \in S : m <= x

\* C29: every row of a boundary file gets the four digits after the first
\* "SY" that is followed by four digits; without one, the first four
\* consecutive digits of the base name; and no code exactly when the base
\* name has no four consecutive digits.
C29_FileYearFromTheBaseName ==
    join_exit = "ok" =>
      \A f \in boundary_files :
        LET s == f.name.base
        IN /\ Len(school_shapes) = Len(f.rows)
           /\ \A k \in 1..Len(school_shapes) :
                /\ SYMatches(s) # {} =>
                     school_shapes[k].file_year = CodeAt(s, Least(SYMatches(s)) + 2)
                /\ (SYMatches(s) = {} /\ DigitRuns(s) # {}) =>
                     school_shapes[k].file_year = CodeAt(s, Least(DigitRuns(s)))
                /\ (school_shapes[k].file_year = NoCode) <=> (DigitRuns(s) = {})

\* C29 witness: the file is named with a year code, then "SY" and another
\* year code, and its rows were written.
C29_Witness ==
    /\ join_exit = "ok"
    /\ Len(school_shapes) = 2
    /\ \E f \in boundary_files :
         /\ SYMatches(f.name.base) # {}
         /\ Least(DigitRuns(f.name.base)) < Least(SYMatches(f.name.base))
         /\ CodeAt(f.name.base, Least(DigitRuns(f.name.base)))
              # CodeAt(f.name.base, Least(SYMatches(f.name.base)) + 2)

====
